---------------------------- MODULE Spec2Model ----------------------------
(***************************************************************************)
(* WebSocket over raw TCP (02-websocket-using-tcp/tcp): the frame codec    *)
(* (ReadFrame, Client.sendFrame, the server's sendFrame), the client's     *)
(* outbound fragmentation (sendFragmentedMessage), and the two frame loops *)
(* (Client.ReadFullMessage as driven by NewClient, and handleWebSocket).   *)
(*                                                                         *)
(* A byte is a number in 0..255, a byte slice is a sequence of bytes, a    *)
(* Frame is a record with the fields of the Go struct.  Payloads of 64 KiB *)
(* and more are needed to reach the 8-byte length form and MaxFrameSize;   *)
(* the operators below work on them in full, while the variables hold such *)
(* a payload as Data (a short prefix and the length of a fixed filler) and *)
(* hold of the bytes written what a reader of the wire observes of them.   *)
(* The specifications share the variables:                                 *)
(*   Spec           one session (client or server role) reading peer frames*)
(*   SpecSend       one call of SendTextMessage / SendBinaryMessage        *)
(*   SpecCodec      one frame through an encoder and back through ReadFrame*)
(*   SpecHandshake  one opening handshake, on the server or on the client  *)
(*   SpecTruncated  ReadFrame on a frame cut short by the end of the stream*)
(*   SpecWrite      a send and a pong written concurrently on one conn     *)
(*   SpecIsolation  a process, its connections, and the errors they meet   *)
(***************************************************************************)
EXTENDS Integers, Sequences, FiniteSets, TLC

VARIABLES
    role,           \* "client" | "server" | "none": which code owns the connection
    conn,           \* "open" | "closed": the session's net.Conn
    inbound,        \* bytes written by the peer and not yet read by the session
    outbound,       \* bytes the session has written with conn.Write, in order
    fullMessage,    \* ReadFullMessage: var fullMessage []byte
    messageOpcode,  \* ReadFullMessage: var messageOpcode byte
    lastReturn,     \* what the frame loop did with the latest frame
    delivered,      \* messages handed to the application, in order
    nframes,        \* frames the peer has sent so far
    lastOp,         \* opcode of the latest frame the session decoded (-1: none)
    prevDelivered,  \* Len(delivered) before the latest frame was handled
    pings,          \* payloads of the ping frames decoded so far, in order
    ref,            \* the reassembly state machine the frames call for (observer)
    eof,            \* the peer has closed its side of the connection
    txFrame,        \* SpecCodec: the Frame handed to the encoder (payload as Data)
    txEnc,          \* SpecCodec: "client" (Client.sendFrame) | "server" (sendFrame)
    txPhase,        \* SpecCodec: "input" | "encoded" | "decoded"
    txPanic,        \* SpecCodec: the encoder panicked (index out of range)
    wireHead,       \* SpecCodec: the header bytes the encoder wrote
    wireLen,        \* SpecCodec: the number of bytes the encoder wrote in all
    rx,             \* SpecCodec: what ReadFrame returned for the bytes written
    sdata,          \* SpecSend: the data argument of sendFragmentedMessage (as Data)
    sopcode,        \* SpecSend: the opcode argument
    remOff,         \* SpecSend: local remaining, a slice of data: where it starts
    remLen,         \* SpecSend: local remaining: len(remaining)
    firstFragment,  \* SpecSend: local firstFragment
    spc,            \* SpecSend: "loop" | "returned" | "idle"
    sent,           \* SpecSend: the frames written, as ReadFrame reads them back
    hs,             \* SpecHandshake: one opening handshake, server or client side
    tr,             \* SpecTruncated: ReadFrame on a stream that ends early
    wr,             \* SpecWrite: two goroutines writing frames on one conn
    iso             \* SpecIsolation: one process and the connections it serves

vars == <<role, conn, inbound, outbound, fullMessage, messageOpcode, lastReturn,
          delivered, nframes, lastOp, prevDelivered, pings, ref, eof,
          txFrame, txEnc, txPhase, txPanic, wireHead, wireLen, rx,
          sdata, sopcode, remOff, remLen, firstFragment, spc, sent,
          hs, tr, wr, iso>>

sessionVars == <<role, conn, inbound, outbound, fullMessage, messageOpcode,
                 lastReturn, delivered, nframes, lastOp, prevDelivered, pings, ref,
                 eof>>
codecVars == <<txFrame, txEnc, txPhase, txPanic, wireHead, wireLen, rx>>
sendVars == <<sdata, sopcode, remOff, remLen, firstFragment, spc, sent>>
auxVars == <<hs, tr, wr, iso>>

(***************************************************************************)
(* Bounds of the model.                                                    *)
(***************************************************************************)
MaxLen == 2        \* longest enumerated small payload
MaxFrames == 3     \* frames the peer sends on one connection

(***************************************************************************)
(* Program constants.                                                      *)
(***************************************************************************)
MaxFrameSize == 65535
Len7Max == 125
Len16Max == 65535
OpContinuation == 0
OpText == 1
OpBinary == 2
OpClose == 8
OpPing == 9
OpPong == 10

(***************************************************************************)
(* Bytes and bit operations.                                               *)
(***************************************************************************)
Byte == 0..255

Bit(x, k) == (x \div (2^k)) % 2

XorByte(a, b) ==
      ((Bit(a,0) + Bit(b,0)) % 2)       + 2   * ((Bit(a,1) + Bit(b,1)) % 2)
    + 4  * ((Bit(a,2) + Bit(b,2)) % 2)  + 8   * ((Bit(a,3) + Bit(b,3)) % 2)
    + 16 * ((Bit(a,4) + Bit(b,4)) % 2)  + 32  * ((Bit(a,5) + Bit(b,5)) % 2)
    + 64 * ((Bit(a,6) + Bit(b,6)) % 2)  + 128 * ((Bit(a,7) + Bit(b,7)) % 2)

\* a ^ b for bytes, tabulated once
XorTable == [a \in Byte |-> [b \in Byte |-> XorByte(a, b)]]

\* A sequence built as a function, as a tuple
AsSeq(f) == f \o <<>>

\* payload[i] ^ key[i % 4] for every i (0-based i; sequences are 1-based)
XorMask(payload, key) ==
    AsSeq([i \in 1..Len(payload) |-> XorTable[payload[i]][key[((i - 1) % 4) + 1]]])

\* binary.BigEndian.PutUint16 / Uint16
PutUint16(n) == <<(n \div 256) % 256, n % 256>>
Uint16(b) == b[1] * 256 + b[2]

\* binary.BigEndian.PutUint64 / Uint64.  Lengths written by the model stay
\* below 2^31, so the four high bytes written are zero.  A value read may
\* be any 64-bit number: below 2^31 it is the integer; from 2^31 on, past
\* the integers of the checker, it is kept exactly as its four 16-bit words
\* w, most significant first: w[1]*2^48 + w[2]*2^32 + w[3]*2^16 + w[4].
PutUint64(n) ==
    <<0, 0, 0, 0, (n \div 16777216) % 256, (n \div 65536) % 256, (n \div 256) % 256, n % 256>>
Wide64(b) == b[1] # 0 \/ b[2] # 0 \/ b[3] # 0 \/ b[4] # 0 \/ b[5] >= 128
Uint64(b) ==
    IF Wide64(b)
    THEN [words |-> <<b[1] * 256 + b[2], b[3] * 256 + b[4],
                      b[5] * 256 + b[6], b[7] * 256 + b[8]>>]
    ELSE ((b[5] * 256 + b[6]) * 256 + b[7]) * 256 + b[8]

(***************************************************************************)
(* type Frame struct                                                       *)
(***************************************************************************)
Frame(fin, opcode, masked, key, payload) ==
    [Fin |-> fin, Opcode |-> opcode, Masked |-> masked,
     PayloadLen |-> Len(payload), MaskKey |-> key, Payload |-> payload]

NoFrame == Frame(FALSE, 0, FALSE, <<>>, <<>>)

\* func (f *Frame) OpcodeName() string
OpcodeName(f) ==
    CASE f.Opcode = 0 -> "continuation"
      [] f.Opcode = 1 -> "text"
      [] f.Opcode = 2 -> "binary"
      [] f.Opcode = 8 -> "close"
      [] f.Opcode = 9 -> "ping"
      [] f.Opcode = 10 -> "pong"
      [] OTHER -> "unknown"

(***************************************************************************)
(* io.ReadFull(conn, buf) on a stream that ends after the bytes given:     *)
(* io.EOF when no byte is left, io.ErrUnexpectedEOF when some but fewer    *)
(* than len(buf) are.                                                      *)
(***************************************************************************)
ReadFullErr(stream, n) ==
    IF Len(stream) >= n THEN ""
    ELSE IF Len(stream) = 0 THEN "EOF" ELSE "unexpected EOF"

Drop(stream, n) == SubSeq(stream, n + 1, Len(stream))
Take(stream, n) == SubSeq(stream, 1, n)

\* return nil, err.  The io.ReadFull that failed has taken the bytes that
\* were left, so nothing stays unread
ReadErr(e) == [err |-> e, frame |-> NoFrame, rest |-> <<>>]

\* The number of header bytes that follow the two fixed ones
ExtLenBytes(ind) == IF ind = 126 THEN 2 ELSE IF ind = 127 THEN 8 ELSE 0

\* switch payloadLen { case 126: ... case 127: ... default: ... }
DecodeLen(ind, ext) ==
    IF ind = 126 THEN Uint16(ext)
    ELSE IF ind = 127 THEN Uint64(ext)
    ELSE ind

(***************************************************************************)
(* func ReadFrame(conn net.Conn) returning a Frame and an error.           *)
(* Returns the error ("" for nil), the frame, and the unread rest.  No     *)
(* stream holds the 2^31 bytes or more of a wide length, so the read of    *)
(* such a payload fails as io.ReadFull does on a stream that ends early.   *)
(***************************************************************************)
ReadFrame(stream) ==
    IF ReadFullErr(stream, 1) # "" THEN ReadErr(ReadFullErr(stream, 1))
    ELSE
    LET firstByte == stream[1]
        fin == (firstByte \div 128) % 2 = 1
        opcode == firstByte % 16
        s1 == Drop(stream, 1)
    IN
    IF ReadFullErr(s1, 1) # "" THEN ReadErr(ReadFullErr(s1, 1))
    ELSE
    LET secondByte == s1[1]
        masked == (secondByte \div 128) % 2 = 1
        ind == secondByte % 128
        s2 == Drop(s1, 1)
        nExt == ExtLenBytes(ind)
    IN
    IF nExt > 0 /\ ReadFullErr(s2, nExt) # "" THEN ReadErr(ReadFullErr(s2, nExt))
    ELSE
    LET payloadLen == DecodeLen(ind, Take(s2, nExt))
        wide == ind = 127 /\ Wide64(Take(s2, nExt))
        s3 == Drop(s2, nExt)
        nKey == IF masked THEN 4 ELSE 0
    IN
    IF masked /\ ReadFullErr(s3, 4) # "" THEN ReadErr(ReadFullErr(s3, 4))
    ELSE
    LET key == Take(s3, nKey)
        s4 == Drop(s3, nKey)
    IN
    IF wide THEN ReadErr(IF Len(s4) = 0 THEN "EOF" ELSE "unexpected EOF")
    ELSE
    IF payloadLen > 0 /\ ReadFullErr(s4, payloadLen) # ""
    THEN ReadErr(ReadFullErr(s4, payloadLen))
    ELSE
    LET raw == Take(s4, payloadLen)
        payload == IF masked /\ payloadLen > 0 THEN XorMask(raw, key) ELSE raw
    IN  [err |-> "",
         frame |-> [Fin |-> fin, Opcode |-> opcode, Masked |-> masked,
                    PayloadLen |-> payloadLen, MaskKey |-> key, Payload |-> payload],
         rest |-> Drop(s4, payloadLen)]

(***************************************************************************)
(* make([]byte, frame.PayloadLen) in ReadFrame, for the 8-byte length ext. *)
(* From 2^47 bytes on the runtime cannot provide the slice: it panics (len *)
(* out of range) or stops with a fatal error (out of memory), and either   *)
(* ends the process.  From 2^31 bytes up to there it depends on the memory *)
(* of the machine whether the allocation is made or the process ends, so   *)
(* both happen.  ReadFrame gets to make once the header and the mask key   *)
(* have been read.                                                         *)
(***************************************************************************)
MakePanics(ext) == ext[1] # 0 \/ ext[2] # 0 \/ ext[3] >= 128

MakeMayPanic(ext) == Wide64(ext)

\* ReadFrame reads as far as make with an 8-byte length
ReachesMake(stream) ==
    /\ Len(stream) >= 10
    /\ stream[2] % 128 = 127
    /\ stream[2] >= 128 => Len(stream) >= 14

ReadFramePanics(stream) ==
    ReachesMake(stream) /\ MakePanics(SubSeq(stream, 3, 10))

ReadFrameMayPanic(stream) ==
    ReachesMake(stream) /\ MakeMayPanic(SubSeq(stream, 3, 10))

\* Whether a call of ReadFrame on the stream ends the process: TRUE, FALSE
\* or either
ReadFrameCrashes(stream) ==
    IF ReadFramePanics(stream) THEN {TRUE}
    ELSE IF ReadFrameMayPanic(stream) THEN BOOLEAN
    ELSE {FALSE}

(***************************************************************************)
(* The length part of a header: the 7-bit field (without the mask bit) and *)
(* the extended length bytes.  Both encoders use the same three tiers.     *)
(***************************************************************************)
M_EncodeLen_Tier(n) ==
    IF n <= Len7Max + 1 THEN [ind |-> n, ext |-> <<>>]
    ELSE IF n < Len16Max THEN [ind |-> 126, ext |-> PutUint16(n)]
    ELSE [ind |-> 127, ext |-> PutUint64(n)]

EncodeLen(n) ==
    IF n <= Len7Max THEN [ind |-> n, ext |-> <<>>]
    ELSE IF n <= Len16Max THEN [ind |-> 126, ext |-> PutUint16(n)]
    ELSE [ind |-> 127, ext |-> PutUint64(n)]

(***************************************************************************)
(* func (c *Client) sendFrame(frame *Frame) error                          *)
(* The mask bit is always set and frame.MaskKey always used, whatever      *)
(* frame.Masked says; frame.MaskKey[i%4] panics when the key is shorter    *)
(* than the index.  header and maskedPayload are the two conn.Write calls. *)
(***************************************************************************)
ClientSendFramePanics(frame) ==
    \E i \in 1..Len(frame.Payload) : ((i - 1) % 4) + 1 > Len(frame.MaskKey)

ClientSendFrame(frame) ==
    LET b0 == (IF frame.Fin THEN 128 ELSE 0) + frame.Opcode
        l == EncodeLen(frame.PayloadLen)
        header == <<b0, l.ind + 128>> \o l.ext \o frame.MaskKey
    IN  IF ClientSendFramePanics(frame)
        THEN [panic |-> TRUE, header |-> <<>>, body |-> <<>>]
        ELSE [panic |-> FALSE, header |-> header,
              body |-> XorMask(frame.Payload, frame.MaskKey)]

(***************************************************************************)
(* func sendFrame(conn net.Conn, payload []byte)   (server)                *)
(***************************************************************************)
ServerSendFrame(payload) ==
    LET l == EncodeLen(Len(payload))
    IN  [panic |-> FALSE, header |-> <<129, l.ind>> \o l.ext, body |-> payload]

Written(w) == w.header \o w.body


(***************************************************************************)
(* Inputs of the model.                                                    *)
(***************************************************************************)
\* func generateMaskKey() []byte: four random bytes
MaskKeys == {<<18, 52, 86, 120>>, <<255, 0, 170, 85>>}

SixOpcodes == {OpContinuation, OpText, OpBinary, OpClose, OpPing, OpPong}

RECURSIVE SeqsUpTo(_, _)
SeqsUpTo(S, n) ==
    IF n = 0 THEN {<<>>}
    ELSE LET shorter == SeqsUpTo(S, n - 1)
         IN  shorter \cup {Append(q, x) : q \in {r \in shorter : Len(r) = n - 1}, x \in S}

SmallPayloads == SeqsUpTo({65, 200}, MaxLen)

\* A long run of bytes that differ from their neighbours
Fill(n) == AsSeq([i \in 1..n |-> (i * 7) % 251])

\* Data: the byte slice pre followed by Fill(fill)
Data(pre, fill) == [pre |-> pre, fill |-> fill]
Bytes(d) == IF d.fill = 0 THEN d.pre ELSE d.pre \o Fill(d.fill)
DataLen(d) == Len(d.pre) + d.fill

SmallData == {Data(p, 0) : p \in SmallPayloads}

\* Payload lengths around the two tier boundaries of the length encoding
TierLengths == {Len7Max, Len7Max + 1, Len16Max, Len16Max + 1}

\* A Frame whose payload is held as Data, and the Go Frame it stands for
FrameIn(fin, opcode, masked, key, d) ==
    [Fin |-> fin, Opcode |-> opcode, Masked |-> masked, MaskKey |-> key, Data |-> d]
FrameOf(t) == Frame(t.Fin, t.Opcode, t.Masked, t.MaskKey, Bytes(t.Data))

CodecFrames ==
    {FrameIn(fin, op, FALSE, <<>>, d) :
        fin \in BOOLEAN, op \in SixOpcodes, d \in SmallData}
    \cup {FrameIn(fin, op, TRUE, k, d) :
        fin \in BOOLEAN, op \in SixOpcodes, k \in MaskKeys, d \in SmallData}
    \cup {FrameIn(TRUE, OpText, FALSE, <<>>, Data(<<>>, n)) : n \in TierLengths}
    \cup {FrameIn(TRUE, OpBinary, TRUE, k, Data(<<>>, n)) : k \in MaskKeys, n \in TierLengths}

\* The frames the server's sendFrame builds: Fin, text, not masked
ServerShaped(t) == t.Fin /\ t.Opcode = OpText /\ ~t.Masked

(***************************************************************************)
(* What a reader of the wire observes of one ReadFrame result, given the   *)
(* payload it was sent.                                                    *)
(***************************************************************************)
Observed(r, payload) ==
    [err |-> r.err, Fin |-> r.frame.Fin, Opcode |-> r.frame.Opcode,
     Masked |-> r.frame.Masked, PayloadLen |-> r.frame.PayloadLen,
     MaskKey |-> r.frame.MaskKey, PayloadBytes |-> Len(r.frame.Payload),
     Same |-> (r.frame.Payload = payload), rest |-> Len(r.rest)]

NothingRead == Observed(ReadErr(""), <<>>)

(***************************************************************************)
(* Idle values of the variables a specification does not use.              *)
(***************************************************************************)
RefIdle == [phase |-> "idle", first |-> 0, payload |-> <<>>, nfrag |-> 0,
            start |-> 0, emitted |-> FALSE, violation |-> "none"]

Continue == [kind |-> "continue", Type |-> 0, Payload |-> <<>>, err |-> ""]

SessionIdle ==
    /\ role = "none" /\ conn = "open" /\ inbound = <<>> /\ outbound = <<>>
    /\ fullMessage = <<>> /\ messageOpcode = 0 /\ lastReturn = Continue
    /\ delivered = <<>> /\ nframes = 0 /\ lastOp = -1 /\ prevDelivered = 0
    /\ pings = <<>> /\ ref = RefIdle /\ eof = FALSE

CodecIdle ==
    /\ txFrame = FrameIn(FALSE, 0, FALSE, <<>>, Data(<<>>, 0))
    /\ txEnc = "none" /\ txPhase = "idle" /\ txPanic = FALSE
    /\ wireHead = <<>> /\ wireLen = 0 /\ rx = NothingRead

SendIdle ==
    /\ sdata = Data(<<>>, 0) /\ sopcode = 0 /\ remOff = 0 /\ remLen = 0
    /\ firstFragment = TRUE /\ spc = "idle" /\ sent = <<>>

HandshakeIdle == hs = [pc |-> "idle"]
TruncatedIdle == tr = [pc |-> "idle"]
WriteIdle == wr = [pc |-> "idle"]
IsolationIdle == iso = [pc |-> "idle"]

(***************************************************************************)
(* SpecCodec: a Frame is encoded by one of the two encoders, and the bytes *)
(* written are read back by ReadFrame.                                     *)
(***************************************************************************)
InitCodec ==
    /\ SessionIdle /\ SendIdle
    /\ HandshakeIdle /\ TruncatedIdle /\ WriteIdle /\ IsolationIdle
    /\ txFrame \in CodecFrames
    /\ txEnc \in {"client", "server"}
    /\ txEnc = "server" => ServerShaped(txFrame)
    /\ txPhase = "input"
    /\ txPanic = FALSE
    /\ wireHead = <<>> /\ wireLen = 0
    /\ rx = NothingRead

\* The two conn.Write calls of the encoder chosen, for txFrame
Encoded ==
    IF txEnc = "client" THEN ClientSendFrame(FrameOf(txFrame))
    ELSE ServerSendFrame(Bytes(txFrame.Data))

ClientEncode ==
    /\ txPhase = "input" /\ txEnc = "client"
    /\ LET w == ClientSendFrame(FrameOf(txFrame))
       IN  /\ txPanic' = w.panic
           /\ wireHead' = w.header
           /\ wireLen' = Len(w.header) + Len(w.body)
    /\ txPhase' = "encoded"
    /\ UNCHANGED <<txFrame, txEnc, rx>>
    /\ UNCHANGED sessionVars
    /\ UNCHANGED sendVars
    /\ UNCHANGED auxVars

ServerEncode ==
    /\ txPhase = "input" /\ txEnc = "server"
    /\ LET w == ServerSendFrame(Bytes(txFrame.Data))
       IN  /\ txPanic' = w.panic
           /\ wireHead' = w.header
           /\ wireLen' = Len(w.header) + Len(w.body)
    /\ txPhase' = "encoded"
    /\ UNCHANGED <<txFrame, txEnc, rx>>
    /\ UNCHANGED sessionVars
    /\ UNCHANGED sendVars
    /\ UNCHANGED auxVars

\* ReadFrame on the bytes the encoder wrote
Decode ==
    /\ txPhase = "encoded" /\ ~txPanic
    /\ rx' = Observed(ReadFrame(Written(Encoded)), Bytes(txFrame.Data))
    /\ txPhase' = "decoded"
    /\ UNCHANGED <<txFrame, txEnc, txPanic, wireHead, wireLen>>
    /\ UNCHANGED sessionVars
    /\ UNCHANGED sendVars
    /\ UNCHANGED auxVars

NextCodec == ClientEncode \/ ServerEncode \/ Decode

SpecCodec == InitCodec /\ [][NextCodec]_vars

(***************************************************************************)
(* SpecSend: one call of SendTextMessage or SendBinaryMessage, one loop    *)
(* iteration of sendFragmentedMessage per step.                            *)
(***************************************************************************)
\* if len(remaining) <= MaxFrameSize { ... } else { ... }
NextChunk(rem) ==
    IF Len(rem) <= MaxFrameSize
    THEN [chunk |-> rem, rest |-> <<>>, isFinal |-> TRUE]
    ELSE [chunk |-> Take(rem, MaxFrameSize), rest |-> Drop(rem, MaxFrameSize),
          isFinal |-> FALSE]

M_FragmentFrame_KeepOpcode(chunk, isFinal, opcode, first, key) ==
    Frame(isFinal, opcode, TRUE, key, chunk)

\* frame := &Frame{...}; if !firstFragment { frame.Opcode = 0x0 }
FragmentFrame(chunk, isFinal, opcode, first, key) ==
    Frame(isFinal, IF first THEN opcode ELSE OpContinuation, TRUE, key, chunk)

\* Messages a caller sends: small ones, and ones around multiples of MaxFrameSize
SendData == SmallData \cup {Data(<<>>, MaxFrameSize), Data(<<65>>, MaxFrameSize),
                            Data(<<65>>, 2 * MaxFrameSize)}

RECURSIVE SumBytes(_)
SumBytes(frames) ==
    IF Len(frames) = 0 THEN 0
    ELSE frames[1].PayloadBytes + SumBytes(Tail(frames))

InitSend ==
    /\ role = "client" /\ conn = "open" /\ inbound = <<>> /\ outbound = <<>>
    /\ fullMessage = <<>> /\ messageOpcode = 0 /\ lastReturn = Continue
    /\ delivered = <<>> /\ nframes = 0 /\ lastOp = -1 /\ prevDelivered = 0
    /\ pings = <<>> /\ ref = RefIdle /\ eof = FALSE
    /\ CodecIdle
    /\ HandshakeIdle /\ TruncatedIdle /\ WriteIdle /\ IsolationIdle
    /\ sdata \in SendData
    /\ sopcode \in {OpText, OpBinary}
    /\ remOff = 0
    /\ remLen = DataLen(sdata)
    /\ firstFragment = TRUE
    /\ spc = "loop"
    /\ sent = <<>>

(***************************************************************************)
(* One iteration of: for len(remaining) > 0 { ... c.sendFrame(frame) ... } *)
(* The iteration's two writes are read back by ReadFrame and compared with *)
(* the bytes of data that follow those already sent.                       *)
(***************************************************************************)
SendFragment ==
    /\ spc = "loop" /\ remLen > 0
    /\ \E key \in MaskKeys :
         LET data == Bytes(sdata)
             rem == SubSeq(data, remOff + 1, remOff + remLen)
             c == NextChunk(rem)
             w == ClientSendFrame(FragmentFrame(c.chunk, c.isFinal, sopcode,
                                                firstFragment, key))
             r == ReadFrame(Written(w))
             done == SumBytes(sent)
             next == SubSeq(data, done + 1, done + Len(r.frame.Payload))
         IN  /\ ~w.panic
             /\ sent' = Append(sent, Observed(r, next))
             /\ remOff' = remOff + (remLen - Len(c.rest))
             /\ remLen' = Len(c.rest)
    /\ firstFragment' = FALSE
    /\ UNCHANGED <<sdata, sopcode, spc>>
    /\ UNCHANGED sessionVars
    /\ UNCHANGED codecVars
    /\ UNCHANGED auxVars

\* The loop condition fails: return nil
SendReturn ==
    /\ spc = "loop" /\ remLen = 0
    /\ spc' = "returned"
    /\ UNCHANGED <<sdata, sopcode, remOff, remLen, firstFragment, sent>>
    /\ UNCHANGED sessionVars
    /\ UNCHANGED codecVars
    /\ UNCHANGED auxVars

NextSend == SendFragment \/ SendReturn

SpecSend == InitSend /\ [][NextSend]_vars

(***************************************************************************)
(* Spec: one session after its handshake, reading the frames its peer      *)
(* sends.  In client role the code is NewClient's loop over ReadMessage    *)
(* (Client.ReadFullMessage); in server role it is handleWebSocket's loop.  *)
(***************************************************************************)
\* "{}" and "null": texts json.Unmarshal decodes into a Msg; "[]": JSON that
\* is no Msg
JSONText == <<123, 125>>
JSONNull == <<110, 117, 108, 108>>
JSONArray == <<91, 93>>

(***************************************************************************)
(* json.Unmarshal(frame.Payload, &msg) with msg a Msg: whether it returns  *)
(* nil.  The payload must be one JSON value with blanks around it at most. *)
(* null leaves msg alone; an object is decoded member by member, and a     *)
(* member whose key is role or content in any case must hold a string or   *)
(* null; every other value is a type error.  The scanners return the index *)
(* behind what they scanned, 0 when it is not valid JSON.                  *)
(***************************************************************************)
IsSpace(c) == c \in {32, 9, 13, 10}
IsDigit(c) == c >= 48 /\ c <= 57
IsHex(c) == IsDigit(c) \/ (c >= 65 /\ c <= 70) \/ (c >= 97 /\ c <= 102)

RECURSIVE SkipSpace(_, _)
SkipSpace(s, i) == IF i <= Len(s) /\ IsSpace(s[i]) THEN SkipSpace(s, i + 1) ELSE i

RECURSIVE SkipDigits(_, _)
SkipDigits(s, i) == IF i <= Len(s) /\ IsDigit(s[i]) THEN SkipDigits(s, i + 1) ELSE i

\* -? (0 | [1-9][0-9]*) (. [0-9]+)? ([eE] [+-]? [0-9]+)?
ScanNumber(s, i) ==
    LET n == Len(s)
        a == IF i <= n /\ s[i] = 45 THEN i + 1 ELSE i
        b == IF a <= n /\ s[a] = 48 THEN a + 1
             ELSE IF a <= n /\ s[a] >= 49 /\ s[a] <= 57 THEN SkipDigits(s, a + 1)
             ELSE 0
        c == IF b = 0 THEN 0
             ELSE IF b <= n /\ s[b] = 46
             THEN (IF SkipDigits(s, b + 1) > b + 1 THEN SkipDigits(s, b + 1) ELSE 0)
             ELSE b
        e == IF c # 0 /\ c + 1 <= n /\ s[c + 1] \in {43, 45} THEN c + 2 ELSE c + 1
    IN  IF c = 0 THEN 0
        ELSE IF c <= n /\ s[c] \in {101, 69}
        THEN (IF SkipDigits(s, e) > e THEN SkipDigits(s, e) ELSE 0)
        ELSE c

\* The characters of a string from index j to the closing quote
RECURSIVE ScanChars(_, _)
ScanChars(s, j) ==
    IF j > Len(s) THEN 0
    ELSE IF s[j] = 34 THEN j + 1
    ELSE IF s[j] < 32 THEN 0
    ELSE IF s[j] # 92 THEN ScanChars(s, j + 1)
    ELSE IF j + 1 > Len(s) THEN 0
    ELSE IF s[j + 1] \in {98, 102, 110, 114, 116, 92, 47, 34} THEN ScanChars(s, j + 2)
    ELSE IF s[j + 1] = 117 /\ j + 5 <= Len(s) /\ \A k \in 2..5 : IsHex(s[j + k])
    THEN ScanChars(s, j + 6)
    ELSE 0

ScanLiteral(s, i, word) ==
    IF i + Len(word) - 1 <= Len(s) /\ SubSeq(s, i, i + Len(word) - 1) = word
    THEN i + Len(word) ELSE 0

HexDigit(c) == IF IsDigit(c) THEN c - 48 ELSE IF c >= 97 THEN c - 87 ELSE c - 55

\* The characters a string literal stands for, from its bytes s[a..b]
\* between the quotes
RECURSIVE Unquote(_, _, _)
Unquote(s, a, b) ==
    IF a > b THEN <<>>
    ELSE IF s[a] # 92 THEN <<s[a]>> \o Unquote(s, a + 1, b)
    ELSE IF s[a + 1] = 117
    THEN <<((HexDigit(s[a + 2]) * 16 + HexDigit(s[a + 3])) * 16
              + HexDigit(s[a + 4])) * 16 + HexDigit(s[a + 5])>>
         \o Unquote(s, a + 6, b)
    ELSE <<CASE s[a + 1] = 98 -> 8 [] s[a + 1] = 102 -> 12 [] s[a + 1] = 110 -> 10
             [] s[a + 1] = 114 -> 13 [] s[a + 1] = 116 -> 9 [] OTHER -> s[a + 1]>>
         \o Unquote(s, a + 2, b)

\* type Msg struct: the names of its fields in JSON, "role" and "content"
MsgFields == {<<114, 111, 108, 101>>, <<99, 111, 110, 116, 101, 110, 116>>}

\* The key names a field of Msg, letters compared without regard to case
IsMsgField(key) ==
    \E f \in MsgFields :
        /\ Len(f) = Len(key)
        /\ \A i \in 1..Len(f) :
              (IF key[i] >= 65 /\ key[i] <= 90 THEN key[i] + 32 ELSE key[i]) = f[i]

\* encoding/json: the scanner refuses a value nested deeper than this
MaxNestingDepth == 10000

\* A value at index i (not a blank), inside depth arrays and objects.
\* typed: the value is the Msg itself, so the members of an object are
\* checked against the fields
RECURSIVE ScanValue(_, _, _, _)
RECURSIVE ScanElements(_, _, _)
RECURSIVE ScanMembers(_, _, _, _)
ScanValue(s, i, typed, depth) ==
    IF i > Len(s) THEN 0
    ELSE CASE s[i] \in {123, 91} /\ depth + 1 > MaxNestingDepth -> 0
           [] s[i] = 123 ->
                 (IF SkipSpace(s, i + 1) <= Len(s) /\ s[SkipSpace(s, i + 1)] = 125
                  THEN SkipSpace(s, i + 1) + 1
                  ELSE ScanMembers(s, SkipSpace(s, i + 1), typed, depth + 1))
           [] s[i] = 91 ->
                 (IF SkipSpace(s, i + 1) <= Len(s) /\ s[SkipSpace(s, i + 1)] = 93
                  THEN SkipSpace(s, i + 1) + 1
                  ELSE ScanElements(s, SkipSpace(s, i + 1), depth + 1))
           [] s[i] = 34 -> ScanChars(s, i + 1)
           [] s[i] = 116 -> ScanLiteral(s, i, <<116, 114, 117, 101>>)
           [] s[i] = 102 -> ScanLiteral(s, i, <<102, 97, 108, 115, 101>>)
           [] s[i] = 110 -> ScanLiteral(s, i, <<110, 117, 108, 108>>)
           [] s[i] = 45 \/ IsDigit(s[i]) -> ScanNumber(s, i)
           [] OTHER -> 0

\* The elements of an array from index i, depth counting the array
ScanElements(s, i, depth) ==
    LET e == ScanValue(s, i, FALSE, depth)
        j == SkipSpace(s, e)
    IN  IF e = 0 \/ j > Len(s) THEN 0
        ELSE IF s[j] = 44 THEN ScanElements(s, SkipSpace(s, j + 1), depth)
        ELSE IF s[j] = 93 THEN j + 1
        ELSE 0

\* The members of an object from index i, depth counting the object
ScanMembers(s, i, typed, depth) ==
    IF i > Len(s) \/ s[i] # 34 THEN 0
    ELSE
    LET k == ScanChars(s, i + 1)
        c == SkipSpace(s, k)
        v == SkipSpace(s, c + 1)
        e == ScanValue(s, v, FALSE, depth)
        j == SkipSpace(s, e)
    IN  IF k = 0 \/ c > Len(s) THEN 0
        ELSE IF s[c] # 58 \/ e = 0 \/ j > Len(s) THEN 0
        ELSE IF typed /\ IsMsgField(Unquote(s, i + 1, k - 2)) /\ s[v] \notin {34, 110}
        THEN 0
        ELSE IF s[j] = 44 THEN ScanMembers(s, SkipSpace(s, j + 1), typed, depth)
        ELSE IF s[j] = 125 THEN j + 1
        ELSE 0

JSONDecodes(payload) ==
    LET i == SkipSpace(payload, 1)
        e == ScanValue(payload, i, TRUE, 0)
    IN  /\ i <= Len(payload)
        /\ payload[i] \in {123, 110}
        /\ e # 0
        /\ SkipSpace(payload, e) = Len(payload) + 1

\* json.Marshal(Msg{Role: "agent", Content: "Okay i got it"})
ResponseJSON ==
    <<123, 34, 114, 111, 108, 101, 34, 58, 34, 97, 103, 101, 110, 116, 34, 44,
      34, 99, 111, 110, 116, 101, 110, 116, 34, 58, 34, 79, 107, 97, 121, 32,
      105, 32, 103, 111, 116, 32, 105, 116, 34, 125>>

\* An opcode OpcodeName calls "unknown"
OpReserved == OpBinary + 1

\* The key the peer of a server masks its frames with
PeerKey == <<7, 77, 177, 250>>

\* Frames a peer may send, before masking: data frames of each opcode with
\* and without fin, with empty and non-empty payloads; control frames; a
\* frame with a reserved opcode; for a server, a text frame holding JSON
PeerFrames(r) ==
    {Frame(fin, OpText, FALSE, <<>>, p) : fin \in BOOLEAN, p \in {<<>>, <<65>>}}
    \cup {Frame(fin, OpBinary, FALSE, <<>>, <<65>>) : fin \in BOOLEAN}
    \cup {Frame(fin, OpContinuation, FALSE, <<>>, p) : fin \in BOOLEAN, p \in {<<>>, <<66>>}}
    \cup {Frame(TRUE, OpReserved, FALSE, <<>>, <<65>>)}
    \cup {Frame(TRUE, OpPing, FALSE, <<>>, p) : p \in {<<>>, <<65>>}}
    \cup {Frame(TRUE, OpPong, FALSE, <<>>, <<>>), Frame(TRUE, OpClose, FALSE, <<>>, <<>>)}
    \cup (IF r = "server"
          THEN {Frame(fin, OpText, FALSE, <<>>, JSONText) : fin \in BOOLEAN}
               \cup {Frame(TRUE, OpText, FALSE, <<>>, p) : p \in {JSONNull, JSONArray}}
          ELSE {})

\* The bytes of a frame on the wire, as the peer writes them: a server's
\* peer masks (it is a client), a client's peer does not
PeerEncode(r, f) ==
    IF r = "server"
    THEN Written(ClientSendFrame([f EXCEPT !.Masked = TRUE, !.MaskKey = PeerKey]))
    ELSE LET l == EncodeLen(f.PayloadLen)
         IN  <<(IF f.Fin THEN 128 ELSE 0) + f.Opcode, l.ind>> \o l.ext \o f.Payload

Init ==
    /\ role \in {"client", "server"}
    /\ conn = "open" /\ inbound = <<>> /\ outbound = <<>>
    /\ fullMessage = <<>> /\ messageOpcode = 0 /\ lastReturn = Continue
    /\ delivered = <<>> /\ nframes = 0 /\ lastOp = -1 /\ prevDelivered = 0
    /\ pings = <<>> /\ ref = RefIdle /\ eof = FALSE
    /\ CodecIdle /\ SendIdle
    /\ HandshakeIdle /\ TruncatedIdle /\ WriteIdle /\ IsolationIdle

(***************************************************************************)
(* The reassembly state machine by the frames alone: a text or binary      *)
(* frame opens a sequence (or is a whole message when fin is set),         *)
(* continuation frames extend it and the one with fin set closes it;       *)
(* control frames leave it alone.  violation names the rule the latest     *)
(* frame broke; after a broken rule, or a reserved opcode, the phase is    *)
(* "bad" until a new message starts.  start is the number of messages      *)
(* delivered before the sequence began.                                    *)
(***************************************************************************)
RefStep(rf, f, nDelivered) ==
    LET base == [rf EXCEPT !.emitted = FALSE, !.violation = "none"]
        name == OpcodeName(f)
    IN  CASE name \in {"close", "ping", "pong"} -> base
          [] name = "unknown" -> [base EXCEPT !.phase = "bad"]
          [] base.phase = "bad" -> base
          [] base.phase = "idle" /\ name = "continuation" ->
                [base EXCEPT !.phase = "bad", !.violation = "contIdle",
                             !.start = nDelivered]
          [] base.phase = "idle" /\ name \in {"text", "binary"} ->
                [phase |-> IF f.Fin THEN "idle" ELSE "open", first |-> f.Opcode,
                 payload |-> f.Payload, nfrag |-> 1, start |-> nDelivered,
                 emitted |-> f.Fin, violation |-> "none"]
          [] base.phase = "open" /\ name = "continuation" ->
                [base EXCEPT !.phase = IF f.Fin THEN "idle" ELSE "open",
                             !.payload = base.payload \o f.Payload,
                             !.nfrag = base.nfrag + 1,
                             !.emitted = f.Fin]
          [] base.phase = "open" /\ name \in {"text", "binary"} ->
                [base EXCEPT !.phase = "bad", !.violation = "dataOpen"]

\* A new message starts after one was emitted, or after the client's
\* ReadFullMessage returned one
RefBase == IF ref.emitted \/ lastReturn.kind = "message" THEN RefIdle ELSE ref

Observe(f) ==
    /\ ref' = RefStep(RefBase, f, Len(delivered))
    /\ lastOp' = f.Opcode
    /\ prevDelivered' = Len(delivered)
    /\ pings' = IF f.Opcode = OpPing THEN Append(pings, f.Payload) ELSE pings

\* ReadFrame failed: no frame was decoded
ObserveNone ==
    /\ ref' = [RefBase EXCEPT !.emitted = FALSE, !.violation = "none"]
    /\ lastOp' = -1
    /\ prevDelivered' = Len(delivered)
    /\ pings' = pings

\* The peer writes its next frame once the previous one has been read
PeerSend ==
    /\ ~eof /\ inbound = <<>> /\ nframes < MaxFrames
    /\ \E f \in PeerFrames(role) : inbound' = PeerEncode(role, f)
    /\ nframes' = nframes + 1
    /\ UNCHANGED <<role, conn, outbound, fullMessage, messageOpcode, lastReturn,
                   delivered, lastOp, prevDelivered, pings, ref, eof>>
    /\ UNCHANGED codecVars
    /\ UNCHANGED sendVars
    /\ UNCHANGED auxVars

\* The peer closes the connection after its last frame was read: the next
\* read meets the end of the stream
PeerClose ==
    /\ ~eof /\ nframes > 0 /\ inbound = <<>>
    /\ eof' = TRUE
    /\ UNCHANGED <<role, conn, inbound, outbound, fullMessage, messageOpcode,
                   lastReturn, delivered, nframes, lastOp, prevDelivered, pings, ref>>
    /\ UNCHANGED codecVars
    /\ UNCHANGED sendVars
    /\ UNCHANGED auxVars

Returned(kind, type, payload, err) ==
    [kind |-> kind, Type |-> type, Payload |-> payload, err |-> err]

\* The body of the loop of ReadFullMessage for a frame whose close case continues
M_ReadFullMessageStep_CloseContinues(frame, fm, mo) ==
    LET name == OpcodeName(frame)
        mo2 == IF Len(fm) = 0 THEN frame.Opcode ELSE mo
        fm2 == fm \o frame.Payload
    IN  CASE name \in {"close", "pong"} ->
                [ret |-> Continue, fullMessage |-> fm, messageOpcode |-> mo, pong |-> FALSE]
          [] name = "ping" ->
                [ret |-> Continue, fullMessage |-> fm, messageOpcode |-> mo, pong |-> TRUE]
          [] OTHER ->
                IF Len(fm) # 0 /\ frame.Opcode # 0
                THEN [ret |-> Returned("error", 0, <<>>,
                                       "protocol error: expected continuation frame"),
                      fullMessage |-> fm, messageOpcode |-> mo, pong |-> FALSE]
                ELSE IF frame.Fin
                THEN [ret |-> Returned("message", mo2, fm2, ""),
                      fullMessage |-> fm2, messageOpcode |-> mo2, pong |-> FALSE]
                ELSE [ret |-> Continue,
                      fullMessage |-> fm2, messageOpcode |-> mo2, pong |-> FALSE]

\* The body of the loop of ReadFullMessage with a ping clearing the locals
M_ReadFullMessageStep_PingResets(frame, fm, mo) ==
    LET name == OpcodeName(frame)
        mo2 == IF Len(fm) = 0 THEN frame.Opcode ELSE mo
        fm2 == fm \o frame.Payload
    IN  CASE name = "close" ->
                [ret |-> Returned("error", 0, <<>>, "received close frame"),
                 fullMessage |-> fm, messageOpcode |-> mo, pong |-> FALSE]
          [] name = "ping" ->
                [ret |-> Continue, fullMessage |-> <<>>, messageOpcode |-> 0, pong |-> TRUE]
          [] name = "pong" ->
                [ret |-> Continue, fullMessage |-> fm, messageOpcode |-> mo, pong |-> FALSE]
          [] OTHER ->
                IF Len(fm) # 0 /\ frame.Opcode # 0
                THEN [ret |-> Returned("error", 0, <<>>,
                                       "protocol error: expected continuation frame"),
                      fullMessage |-> fm, messageOpcode |-> mo, pong |-> FALSE]
                ELSE IF frame.Fin
                THEN [ret |-> Returned("message", mo2, fm2, ""),
                      fullMessage |-> fm2, messageOpcode |-> mo2, pong |-> FALSE]
                ELSE [ret |-> Continue,
                      fullMessage |-> fm2, messageOpcode |-> mo2, pong |-> FALSE]

\* The body of the loop of ReadFullMessage with the fragment put before the buffer
M_ReadFullMessageStep_Prepend(frame, fm, mo) ==
    LET name == OpcodeName(frame)
        mo2 == IF Len(fm) = 0 THEN frame.Opcode ELSE mo
        fm2 == frame.Payload \o fm
    IN  CASE name = "close" ->
                [ret |-> Returned("error", 0, <<>>, "received close frame"),
                 fullMessage |-> fm, messageOpcode |-> mo, pong |-> FALSE]
          [] name = "ping" ->
                [ret |-> Continue, fullMessage |-> fm, messageOpcode |-> mo, pong |-> TRUE]
          [] name = "pong" ->
                [ret |-> Continue, fullMessage |-> fm, messageOpcode |-> mo, pong |-> FALSE]
          [] OTHER ->
                IF Len(fm) # 0 /\ frame.Opcode # 0
                THEN [ret |-> Returned("error", 0, <<>>,
                                       "protocol error: expected continuation frame"),
                      fullMessage |-> fm, messageOpcode |-> mo, pong |-> FALSE]
                ELSE IF frame.Fin
                THEN [ret |-> Returned("message", mo2, fm2, ""),
                      fullMessage |-> fm2, messageOpcode |-> mo2, pong |-> FALSE]
                ELSE [ret |-> Continue,
                      fullMessage |-> fm2, messageOpcode |-> mo2, pong |-> FALSE]

(***************************************************************************)
(* The body of the loop of Client.ReadFullMessage for one decoded frame,   *)
(* with fullMessage = fm and messageOpcode = mo: what it returns (or that  *)
(* it continues), the locals after it, and whether it calls sendPong.      *)
(***************************************************************************)
ReadFullMessageStep(frame, fm, mo) ==
    LET name == OpcodeName(frame)
        mo2 == IF Len(fm) = 0 THEN frame.Opcode ELSE mo
        fm2 == fm \o frame.Payload
    IN  CASE name = "close" ->
                [ret |-> Returned("error", 0, <<>>, "received close frame"),
                 fullMessage |-> fm, messageOpcode |-> mo, pong |-> FALSE]
          [] name = "ping" ->
                [ret |-> Continue, fullMessage |-> fm, messageOpcode |-> mo, pong |-> TRUE]
          [] name = "pong" ->
                [ret |-> Continue, fullMessage |-> fm, messageOpcode |-> mo, pong |-> FALSE]
          [] OTHER ->
                IF Len(fm) # 0 /\ frame.Opcode # 0
                THEN [ret |-> Returned("error", 0, <<>>,
                                       "protocol error: expected continuation frame"),
                      fullMessage |-> fm, messageOpcode |-> mo, pong |-> FALSE]
                ELSE IF frame.Fin
                THEN [ret |-> Returned("message", mo2, fm2, ""),
                      fullMessage |-> fm2, messageOpcode |-> mo2, pong |-> FALSE]
                ELSE [ret |-> Continue,
                      fullMessage |-> fm2, messageOpcode |-> mo2, pong |-> FALSE]

\* ReadFullMessage: if err != nil { if err == io.EOF {...}; return ... }
ReadError(err) ==
    Returned("error", 0, <<>>,
             IF err = "EOF" THEN "connection closed" ELSE "error reading frame")

\* func (c *Client) sendPong(payload []byte) error: the frame it sends
PongFrame(payload, key) == Frame(TRUE, OpPong, TRUE, key, payload)

(***************************************************************************)
(* The client reads one frame: ReadFrame, then the loop body.  An error    *)
(* leaves NewClient, whose deferred client.Close() closes the connection;  *)
(* a message is logged, and the loop calls ReadMessage afresh.             *)
(***************************************************************************)
ClientReadFrame ==
    /\ role = "client" /\ conn = "open"
    /\ inbound # <<>> \/ eof
    /\ LET r == ReadFrame(inbound)
       IN  IF r.err # ""
           THEN /\ lastReturn' = ReadError(r.err)
                /\ conn' = "closed"
                /\ inbound' = r.rest
                /\ ObserveNone
                /\ UNCHANGED <<outbound, fullMessage, messageOpcode, delivered>>
           ELSE LET o == ReadFullMessageStep(r.frame, fullMessage, messageOpcode)
                IN  /\ inbound' = r.rest
                    /\ Observe(r.frame)
                    /\ lastReturn' = o.ret
                    /\ IF o.pong
                       THEN \E key \in MaskKeys :
                               outbound' = outbound \o
                                   Written(ClientSendFrame(PongFrame(r.frame.Payload, key)))
                       ELSE outbound' = outbound
                    /\ CASE o.ret.kind = "error" ->
                              /\ conn' = "closed"
                              /\ UNCHANGED <<fullMessage, messageOpcode, delivered>>
                         [] o.ret.kind = "message" ->
                              /\ delivered' = Append(delivered,
                                      [Type |-> o.ret.Type, Payload |-> o.ret.Payload])
                              /\ fullMessage' = <<>>
                              /\ messageOpcode' = 0
                              /\ conn' = conn
                         [] OTHER ->
                              /\ fullMessage' = o.fullMessage
                              /\ messageOpcode' = o.messageOpcode
                              /\ UNCHANGED <<conn, delivered>>
    /\ UNCHANGED <<role, nframes, eof>>
    /\ UNCHANGED codecVars
    /\ UNCHANGED sendVars
    /\ UNCHANGED auxVars

\* HandleFrame with a JSON error ending the session instead of skipping the frame
M_HandleFrame_ReturnOnBadJSON(frame) ==
    LET name == OpcodeName(frame)
    IN  CASE name = "close" -> [return |-> TRUE, handled |-> FALSE, respond |-> FALSE]
          [] name = "text" ->
                [return |-> ~JSONDecodes(frame.Payload), handled |-> TRUE,
                 respond |-> JSONDecodes(frame.Payload)]
          [] OTHER -> [return |-> FALSE, handled |-> FALSE, respond |-> FALSE]

(***************************************************************************)
(* The switch of handleWebSocket's loop for one decoded frame: whether the *)
(* function returns, whether the text case runs, whether it sends the      *)
(* response.                                                               *)
(***************************************************************************)
HandleFrame(frame) ==
    LET name == OpcodeName(frame)
    IN  CASE name = "close" -> [return |-> TRUE, handled |-> FALSE, respond |-> FALSE]
          [] name = "text" ->
                [return |-> FALSE, handled |-> TRUE, respond |-> JSONDecodes(frame.Payload)]
          [] OTHER -> [return |-> FALSE, handled |-> FALSE, respond |-> FALSE]

\* The server reads one frame; every return runs the deferred conn.Close()
ServerReadFrame ==
    /\ role = "server" /\ conn = "open"
    /\ inbound # <<>> \/ eof
    /\ LET r == ReadFrame(inbound)
       IN  IF r.err # ""
           THEN /\ lastReturn' = ReadError(r.err)
                /\ conn' = "closed"
                /\ inbound' = r.rest
                /\ ObserveNone
                /\ UNCHANGED <<outbound, delivered>>
           ELSE LET o == HandleFrame(r.frame)
                IN  /\ inbound' = r.rest
                    /\ Observe(r.frame)
                    /\ lastReturn' = IF o.return THEN Returned("return", 0, <<>>, "")
                                     ELSE Continue
                    /\ conn' = IF o.return THEN "closed" ELSE conn
                    /\ delivered' = IF o.handled
                                    THEN Append(delivered, [Type |-> r.frame.Opcode,
                                                            Payload |-> r.frame.Payload])
                                    ELSE delivered
                    /\ outbound' = IF o.respond
                                   THEN outbound \o Written(ServerSendFrame(ResponseJSON))
                                   ELSE outbound
    /\ UNCHANGED <<role, fullMessage, messageOpcode, nframes, eof>>
    /\ UNCHANGED codecVars
    /\ UNCHANGED sendVars
    /\ UNCHANGED auxVars

Next == PeerSend \/ PeerClose \/ ClientReadFrame \/ ServerReadFrame

Spec == Init /\ [][Next]_vars

(***************************************************************************)
(* Every frame of a byte stream, as a reader of the wire sees them.        *)
(***************************************************************************)
RECURSIVE DecodeAll(_)
DecodeAll(stream) ==
    IF Len(stream) = 0 THEN [frames |-> <<>>, err |-> ""]
    ELSE LET r == ReadFrame(stream)
         IN  IF r.err # "" THEN [frames |-> <<>>, err |-> r.err]
             ELSE LET more == DecodeAll(r.rest)
                  IN  [frames |-> <<r.frame>> \o more.frames, err |-> more.err]

\* The payloads of the pong frames among frames, in order
RECURSIVE PongPayloads(_)
PongPayloads(frames) ==
    IF Len(frames) = 0 THEN <<>>
    ELSE (IF frames[1].Opcode = OpPong /\ frames[1].Fin
          THEN <<frames[1].Payload>> ELSE <<>>) \o PongPayloads(Tail(frames))


(***************************************************************************)
(* Strings.  A Go string is held as the sequence of its bytes.             *)
(***************************************************************************)
\* strings.Contains(s, substr)
Contains(s, substr) ==
    \E i \in 1..(Len(s) - Len(substr) + 1) : SubSeq(s, i, i + Len(substr) - 1) = substr

\* One ASCII letter / a string in lower case (header names are matched
\* without regard to case by http.Header.Get on a parsed request)
LowerByte(c) == IF c >= 65 /\ c <= 90 THEN c + 32 ELSE c
ToLower(s) == AsSeq([i \in 1..Len(s) |-> LowerByte(s[i])])

\* "Upgrade"
StrUpgrade ==
    <<85, 112, 103, 114, 97, 100, 101>>

\* "websocket"
StrWebsocket ==
    <<119, 101, 98, 115, 111, 99, 107, 101, 116>>

\* "Connection"
HdrConnection ==
    <<67, 111, 110, 110, 101, 99, 116, 105, 111, 110>>

\* "Upgrade" as a header name
HdrUpgrade ==
    <<85, 112, 103, 114, 97, 100, 101>>

\* "Sec-WebSocket-Key"
HdrKey ==
    <<83, 101, 99, 45, 87, 101, 98, 83, 111, 99, 107, 101, 116, 45, 75,
      101, 121>>

\* "258EAFA5-E914-47DA-95CA-C5AB0DC85B11"
AcceptGUID ==
    <<50, 53, 56, 69, 65, 70, 65, 53, 45, 69, 57, 49, 52, 45, 52, 55, 68,
      65, 45, 57, 53, 67, 65, 45, 67, 53, 65, 66, 48, 68, 67, 56, 53, 66,
      49, 49>>

\* "HTTP/1.1 101 Switching Protocols\r\nUpgrade: websocket\r\nConnection: Upgrade\r\nSec-WebSocket-Accept: "
ResponseHead ==
    <<72, 84, 84, 80, 47, 49, 46, 49, 32, 49, 48, 49, 32, 83, 119, 105,
      116, 99, 104, 105, 110, 103, 32, 80, 114, 111, 116, 111, 99, 111,
      108, 115, 13, 10, 85, 112, 103, 114, 97, 100, 101, 58, 32, 119, 101,
      98, 115, 111, 99, 107, 101, 116, 13, 10, 67, 111, 110, 110, 101, 99,
      116, 105, 111, 110, 58, 32, 85, 112, 103, 114, 97, 100, 101, 13, 10,
      83, 101, 99, 45, 87, 101, 98, 83, 111, 99, 107, 101, 116, 45, 65, 99,
      99, 101, 112, 116, 58, 32>>

\* "\r\n\r\n"
CRLFCRLF ==
    <<13, 10, 13, 10>>

\* "101 Switching Protocols"
Status101 ==
    <<49, 48, 49, 32, 83, 119, 105, 116, 99, 104, 105, 110, 103, 32, 80,
      114, 111, 116, 111, 99, 111, 108, 115>>

\* the alphabet of base64.StdEncoding
Base64Alphabet ==
    <<65, 66, 67, 68, 69, 70, 71, 72, 73, 74, 75, 76, 77, 78, 79, 80, 81,
      82, 83, 84, 85, 86, 87, 88, 89, 90, 97, 98, 99, 100, 101, 102, 103,
      104, 105, 106, 107, 108, 109, 110, 111, 112, 113, 114, 115, 116, 117,
      118, 119, 120, 121, 122, 48, 49, 50, 51, 52, 53, 54, 55, 56, 57, 43,
      47>>

(***************************************************************************)
(* crypto/sha1.  A 32-bit word is the sequence of its 32 bits, the most    *)
(* significant first.                                                      *)
(***************************************************************************)
WordOf(hi, lo) ==
    AsSeq([i \in 1..32 |-> IF i <= 16 THEN Bit(hi, 16 - i) ELSE Bit(lo, 32 - i)])

\* The value of the 16 bits of w that start at bit from
Half(w, from) ==
      w[from] * 32768    + w[from + 1] * 16384 + w[from + 2] * 8192
    + w[from + 3] * 4096 + w[from + 4] * 2048  + w[from + 5] * 1024
    + w[from + 6] * 512  + w[from + 7] * 256   + w[from + 8] * 128
    + w[from + 9] * 64   + w[from + 10] * 32   + w[from + 11] * 16
    + w[from + 12] * 8   + w[from + 13] * 4    + w[from + 14] * 2
    + w[from + 15]

\* bits.RotateLeft32, ^, &, |, ^x and + on uint32
RotateLeft32(w, n) == AsSeq([i \in 1..32 |-> w[((i - 1 + n) % 32) + 1]])
WXor(a, b) == AsSeq([i \in 1..32 |-> (a[i] + b[i]) % 2])
WAnd(a, b) == AsSeq([i \in 1..32 |-> a[i] * b[i]])
WOr(a, b) == AsSeq([i \in 1..32 |-> a[i] + b[i] - a[i] * b[i]])
WNot(a) == AsSeq([i \in 1..32 |-> 1 - a[i]])
WAdd(a, b) ==
    LET lo == Half(a, 17) + Half(b, 17)
        hi == Half(a, 1) + Half(b, 1) + (lo \div 65536)
    IN  WordOf(hi % 65536, lo % 65536)

\* The initial hash value and the four round constants
Sha1Init ==
    <<WordOf(26437, 8961), WordOf(61389, 43913), WordOf(39098, 56574),
      WordOf(4146, 21622), WordOf(50130, 57840)>>
Sha1K(t) ==
    IF t < 20 THEN WordOf(23170, 31129)
    ELSE IF t < 40 THEN WordOf(28377, 60321)
    ELSE IF t < 60 THEN WordOf(36635, 48348)
    ELSE WordOf(51810, 49622)

\* The message with the 1 bit, the zero padding and the 64-bit bit length
Sha1Pad(msg) ==
    LET n == Len(msg)
        zeros == (119 - (n % 64)) % 64
    IN  msg \o <<128>> \o AsSeq([i \in 1..zeros |-> 0]) \o PutUint64(n * 8)

\* The sixteen words of the block that starts after off bytes
Sha1Block(bytes, off) ==
    AsSeq([j \in 1..16 |->
        WordOf(bytes[off + 4 * j - 3] * 256 + bytes[off + 4 * j - 2],
               bytes[off + 4 * j - 1] * 256 + bytes[off + 4 * j])])

\* The message schedule, extended from the words w to n words
RECURSIVE Sha1Schedule(_, _)
Sha1Schedule(w, n) ==
    IF Len(w) >= n THEN w
    ELSE IF Len(w) + 1 = n
    THEN Append(w, RotateLeft32(WXor(WXor(w[n - 3], w[n - 8]),
                                     WXor(w[n - 14], w[n - 16])), 1))
    ELSE LET m == Len(w) + ((n - Len(w)) \div 2)
             first == Sha1Schedule(w, m)
         IN  IF Len(first) = m THEN Sha1Schedule(first, n) ELSE w

Sha1F(t, b, c, d) ==
    IF t < 20 THEN WOr(WAnd(b, c), WAnd(WNot(b), d))
    ELSE IF t < 40 THEN WXor(WXor(b, c), d)
    ELSE IF t < 60 THEN WOr(WOr(WAnd(b, c), WAnd(b, d)), WAnd(c, d))
    ELSE WXor(WXor(b, c), d)

\* Round t on the working variables s = <<a, b, c, d, e>>
Sha1Round(t, s, w) ==
    LET tmp == WAdd(WAdd(WAdd(RotateLeft32(s[1], 5), Sha1F(t, s[2], s[3], s[4])),
                         WAdd(s[5], Sha1K(t))), w[t + 1])
    IN  <<tmp, s[1], RotateLeft32(s[2], 30), s[3], s[4]>>

\* The n rounds from round t on
RECURSIVE Sha1Rounds(_, _, _, _)
Sha1Rounds(t, n, s, w) ==
    IF n = 0 THEN s
    ELSE IF n = 1 THEN Sha1Round(t, s, w)
    ELSE LET h == n \div 2
             first == Sha1Rounds(t, h, s, w)
         IN  IF Len(first) = 5 THEN Sha1Rounds(t + h, n - h, first, w) ELSE s

\* The hash value after the blocks from off on
RECURSIVE Sha1Blocks(_, _, _)
Sha1Blocks(bytes, off, h) ==
    IF off >= Len(bytes) THEN h
    ELSE LET s == Sha1Rounds(0, 80, h, Sha1Schedule(Sha1Block(bytes, off), 80))
         IN  Sha1Blocks(bytes, off + 64,
                        <<WAdd(h[1], s[1]), WAdd(h[2], s[2]), WAdd(h[3], s[3]),
                          WAdd(h[4], s[4]), WAdd(h[5], s[5])>>)

\* h.Write(msg); h.Sum(nil): the twenty bytes of the digest
Sha1Sum(msg) ==
    LET h == Sha1Blocks(Sha1Pad(msg), 0, Sha1Init)
    IN  AsSeq([i \in 1..20 |->
            LET w == h[((i - 1) \div 4) + 1]
                v == IF (i - 1) % 4 < 2 THEN Half(w, 1) ELSE Half(w, 17)
            IN  IF (i - 1) % 2 = 0 THEN v \div 256 ELSE v % 256])

(***************************************************************************)
(* base64.StdEncoding.EncodeToString                                       *)
(***************************************************************************)
RECURSIVE Base64Encode(_)
Base64Encode(b) ==
    IF Len(b) = 0 THEN <<>>
    ELSE IF Len(b) = 1 THEN
        <<Base64Alphabet[(b[1] \div 4) + 1], Base64Alphabet[((b[1] % 4) * 16) + 1],
          61, 61>>
    ELSE IF Len(b) = 2 THEN
        <<Base64Alphabet[(b[1] \div 4) + 1],
          Base64Alphabet[((b[1] % 4) * 16 + (b[2] \div 16)) + 1],
          Base64Alphabet[((b[2] % 16) * 4) + 1], 61>>
    ELSE
        <<Base64Alphabet[(b[1] \div 4) + 1],
          Base64Alphabet[((b[1] % 4) * 16 + (b[2] \div 16)) + 1],
          Base64Alphabet[((b[2] % 16) * 4 + (b[3] \div 64)) + 1],
          Base64Alphabet[(b[3] % 64) + 1]>> \o Base64Encode(SubSeq(b, 4, Len(b)))

\* func generateWebSocketAcceptKey(key string) string with the GUID left out
M_generateWebSocketAcceptKey_NoGUID(key) == Base64Encode(Sha1Sum(key))

\* func generateWebSocketAcceptKey(key string) string
generateWebSocketAcceptKey(key) == Base64Encode(Sha1Sum(key \o AcceptGUID))

(***************************************************************************)
(* Inputs of the opening handshake.                                        *)
(***************************************************************************)
\* "upgrade"
StrUpgradeLower ==
    <<117, 112, 103, 114, 97, 100, 101>>

\* "keep-alive, Upgrade"
StrKeepAliveUpgrade ==
    <<107, 101, 101, 112, 45, 97, 108, 105, 118, 101, 44, 32, 85, 112, 103,
      114, 97, 100, 101>>

\* "keep-alive"
StrKeepAlive ==
    <<107, 101, 101, 112, 45, 97, 108, 105, 118, 101>>

\* "NoUpgrade"
StrNoUpgrade ==
    <<78, 111, 85, 112, 103, 114, 97, 100, 101>>

\* "WebSocket"
StrWebSocketMixed ==
    <<87, 101, 98, 83, 111, 99, 107, 101, 116>>

\* "h2c"
StrH2c ==
    <<104, 50, 99>>

\* "dGhlIHNhbXBsZSBub25jZQ=="
SampleKey ==
    <<100, 71, 104, 108, 73, 72, 78, 104, 98, 88, 66, 115, 90, 83, 66, 117,
      98, 50, 53, 106, 90, 81, 61, 61>>

\* "x3JJHMbDL1EzLkh9GBhXDw=="
OtherKey ==
    <<120, 51, 74, 74, 72, 77, 98, 68, 76, 49, 69, 122, 76, 107, 104, 57,
      71, 66, 104, 88, 68, 119, 61, 61>>

\* "s3pPLMBiTxaQ9kYGzzhZRbK+xOo="
SampleAccept ==
    <<115, 51, 112, 80, 76, 77, 66, 105, 84, 120, 97, 81, 57, 107, 89, 71,
      122, 122, 104, 90, 82, 98, 75, 43, 120, 79, 111, 61>>

\* "HSmrc0sMlYUkAGmm5OPpG2HaGWk="
OtherAccept ==
    <<72, 83, 109, 114, 99, 48, 115, 77, 108, 89, 85, 107, 65, 71, 109,
      109, 53, 79, 80, 112, 71, 50, 72, 97, 71, 87, 107, 61>>

\* "GET / HTTP/1.1\r\nHost: localhost\r\nUpgrade: websocket\r\nConnection: Upgrade\r\nSec-WebSocket-Key: "
RequestHead ==
    <<71, 69, 84, 32, 47, 32, 72, 84, 84, 80, 47, 49, 46, 49, 13, 10, 72,
      111, 115, 116, 58, 32, 108, 111, 99, 97, 108, 104, 111, 115, 116, 13,
      10, 85, 112, 103, 114, 97, 100, 101, 58, 32, 119, 101, 98, 115, 111,
      99, 107, 101, 116, 13, 10, 67, 111, 110, 110, 101, 99, 116, 105, 111,
      110, 58, 32, 85, 112, 103, 114, 97, 100, 101, 13, 10, 83, 101, 99,
      45, 87, 101, 98, 83, 111, 99, 107, 101, 116, 45, 75, 101, 121, 58,
      32>>

\* "\r\nSec-WebSocket-Version: 13\r\n\r\n"
RequestTail ==
    <<13, 10, 83, 101, 99, 45, 87, 101, 98, 83, 111, 99, 107, 101, 116, 45,
      86, 101, 114, 115, 105, 111, 110, 58, 32, 49, 51, 13, 10, 13, 10>>

\* "HTTP/1.1 400 Bad Request\r\n\r\n"
Resp400 ==
    <<72, 84, 84, 80, 47, 49, 46, 49, 32, 52, 48, 48, 32, 66, 97, 100, 32,
      82, 101, 113, 117, 101, 115, 116, 13, 10, 13, 10>>

\* "HTTP/1.1 200 OK\r\n\r\n"
Resp200 ==
    <<72, 84, 84, 80, 47, 49, 46, 49, 32, 50, 48, 48, 32, 79, 75, 13, 10,
      13, 10>>

\* "HTTP/1.1 404 Not Found\r\nContent-Length: 0\r\n\r\n"
Resp404 ==
    <<72, 84, 84, 80, 47, 49, 46, 49, 32, 52, 48, 52, 32, 78, 111, 116, 32,
      70, 111, 117, 110, 100, 13, 10, 67, 111, 110, 116, 101, 110, 116, 45,
      76, 101, 110, 103, 116, 104, 58, 32, 48, 13, 10, 13, 10>>

\* "HTTP/1.1 426 Upgrade Required\r\nContent-Length: 0\r\n\r\n"
Resp426 ==
    <<72, 84, 84, 80, 47, 49, 46, 49, 32, 52, 50, 54, 32, 85, 112, 103,
      114, 97, 100, 101, 32, 82, 101, 113, 117, 105, 114, 101, 100, 13, 10,
      67, 111, 110, 116, 101, 110, 116, 45, 76, 101, 110, 103, 116, 104,
      58, 32, 48, 13, 10, 13, 10>>

\* "HTTP/1.0 500 Internal Server Error\r\n\r\n"
Resp500 ==
    <<72, 84, 84, 80, 47, 49, 46, 48, 32, 53, 48, 48, 32, 73, 110, 116,
      101, 114, 110, 97, 108, 32, 83, 101, 114, 118, 101, 114, 32, 69, 114,
      114, 111, 114, 13, 10, 13, 10>>

(***************************************************************************)
(* SpecHandshake: one opening handshake.  On the server, handleWebSocket   *)
(* up to its frame loop; on the client, Client.Handshake and what          *)
(* NewClient does with its result.                                         *)
(*                                                                         *)
(* A request is what http.ReadRequest makes of the bytes received: whether *)
(* it parsed, and the header fields in order.  A response is the sequence  *)
(* of chunks that successive conn.Read calls return (none: the peer closed *)
(* without answering).                                                     *)
(*                                                                         *)
(* What the peer sends behind its handshake message reaches the connection *)
(* in reads too.  On the server, tail is what the read that brought the    *)
(* end of the request carried behind it, and reads are the later ones; on  *)
(* the client, reads hold the response and whatever follows it.  The peer  *)
(* closes after the last of them.  buffered counts the bytes of the        *)
(* request in the server's bufio.Reader when that read returns: those not  *)
(* yet taken from it and those the read brought.                           *)
(***************************************************************************)
Field(name, value) == [name |-> name, value |-> value]

\* request.Header.Get(name): the first value under the name, matched
\* without regard to case; "" when the field is absent
RECURSIVE HeaderGet(_, _)
HeaderGet(header, name) ==
    IF Len(header) = 0 THEN <<>>
    ELSE IF ToLower(header[1].name) = ToLower(name) THEN header[1].value
    ELSE HeaderGet(Tail(header), name)

ConnectionValues ==
    {StrUpgrade, StrUpgradeLower, StrKeepAliveUpgrade, StrKeepAlive, StrNoUpgrade}
UpgradeValues == {StrWebsocket, StrWebSocketMixed, StrH2c}
KeyValues == {SampleKey, OtherKey}

\* The header fields of a request: each of the three fields present with
\* one of its values or absent, the names as written or in lower case
Headers ==
    {  (IF c = <<>> THEN <<>> ELSE <<Field(IF low THEN ToLower(HdrConnection)
                                                ELSE HdrConnection, c)>>)
    \o (IF u = <<>> THEN <<>> ELSE <<Field(IF low THEN ToLower(HdrUpgrade)
                                                ELSE HdrUpgrade, u)>>)
    \o (IF k = <<>> THEN <<>> ELSE <<Field(IF low THEN ToLower(HdrKey)
                                                ELSE HdrKey, k)>>) :
       c \in ConnectionValues \cup {<<>>}, u \in UpgradeValues \cup {<<>>},
       k \in KeyValues \cup {<<>>}, low \in BOOLEAN }

Requests == {[ok |-> TRUE, header |-> h] : h \in Headers}
            \cup {[ok |-> FALSE, header |-> <<>>]}

\* The 101 response for an accept value
SwitchingProtocols(acceptKey) == ResponseHead \o acceptKey \o CRLFCRLF

\* All the bytes of a sequence of chunks
RECURSIVE Concat(_)
Concat(chunks) == IF Len(chunks) = 0 THEN <<>> ELSE chunks[1] \o Concat(Tail(chunks))

\* The first frame each side's peer sends once the handshake is over: a
\* client's masked text frame, the server's answer to one
ClientFirstFrameBytes == PeerEncode("server", Frame(TRUE, OpText, FALSE, <<>>, JSONText))
ServerFirstFrameBytes == Written(ServerSendFrame(ResponseJSON))

\* bufio.NewReader(conn): a buffer of bufio's default size
DefaultBufSize == 4096

\* What follows the request on a server's connection, after a request of
\* 160 bytes; in the last, after one that leaves room for three more bytes
\* in the buffer
ServerStreams ==
    { [buffered |-> 160, tail |-> <<>>, reads |-> <<>>],
      [buffered |-> 160, tail |-> <<>>, reads |-> <<ClientFirstFrameBytes>>],
      [buffered |-> 160, tail |-> ClientFirstFrameBytes, reads |-> <<>>],
      [buffered |-> 160, tail |-> Take(ClientFirstFrameBytes, 3),
       reads |-> <<Drop(ClientFirstFrameBytes, 3)>>],
      [buffered |-> 160, tail |-> ClientFirstFrameBytes,
       reads |-> <<ClientFirstFrameBytes>>],
      [buffered |-> DefaultBufSize - 3, tail |-> ClientFirstFrameBytes, reads |-> <<>>] }

\* A frame of the server that fills, with the 101 response of 129 bytes, a
\* read of 1024 bytes: 4 bytes of header and 891 of payload
LongFrameBytes == Written(ServerSendFrame(AsSeq([i \in 1..891 |-> 97])))

\* Responses a client may meet, as the chunks its reads return
Responses ==
    { <<SwitchingProtocols(SampleAccept)>>,
      <<Take(SwitchingProtocols(SampleAccept), 12),
        Drop(SwitchingProtocols(SampleAccept), 12)>>,
      <<Resp400>>, <<Resp200>>, <<Resp404>>, <<Resp500>>,
      <<Resp426>>, <<Take(Resp426, 17), Drop(Resp426, 17)>>,
      <<Take(Resp426, 40), Drop(Resp426, 40)>>,
      <<>>,
      <<SwitchingProtocols(SampleAccept), ServerFirstFrameBytes>>,
      <<SwitchingProtocols(SampleAccept) \o ServerFirstFrameBytes>>,
      <<SwitchingProtocols(SampleAccept) \o Take(ServerFirstFrameBytes, 1),
        Drop(ServerFirstFrameBytes, 1)>>,
      <<Take(SwitchingProtocols(SampleAccept), 40),
        Drop(SwitchingProtocols(SampleAccept), 40), ServerFirstFrameBytes>>,
      <<SwitchingProtocols(SampleAccept), <<137, 1, 112>>>>,
      <<SwitchingProtocols(SampleAccept) \o LongFrameBytes \o ServerFirstFrameBytes>> }

\* The sixteen random bytes of the client's key
RandomKeys ==
    { AsSeq([i \in 1..16 |-> (i * 37) % 256]), AsSeq([i \in 1..16 |-> 255 - i]) }

\* No first frame read yet
NotRead == [err |-> "none", frame |-> NoFrame]

HandshakeStart(side, req, buffered, tail, reads, key) ==
    [pc |-> "start", side |-> side, req |-> req, buffered |-> buffered,
     tail |-> tail, reads |-> reads,
     key |-> key, written |-> <<>>, conn |-> "open", outcome |-> "pending",
     err |-> "", attempts |-> 0, sentFrames |-> 0, decoded |-> 0, messages |-> 0,
     first |-> NotRead]

InitHandshake ==
    /\ SessionIdle /\ CodecIdle /\ SendIdle
    /\ TruncatedIdle /\ WriteIdle /\ IsolationIdle
    /\ \/ \E req \in Requests, st \in ServerStreams :
              hs = HandshakeStart("server", req, st.buffered, st.tail, st.reads, <<>>)
       \/ \E reads \in Responses, key \in RandomKeys :
              hs = HandshakeStart("client", [ok |-> FALSE, header |-> <<>>],
                                  0, <<>>, reads, key)

(***************************************************************************)
(* handleWebSocket, step 1: what the request makes it do.  Every return    *)
(* runs the deferred conn.Close().                                         *)
(***************************************************************************)
ServerValidates(req) ==
    /\ Contains(HeaderGet(req.header, HdrConnection), StrUpgrade)
    /\ HeaderGet(req.header, HdrUpgrade) = StrWebsocket

ServerHandshakeResult(req) ==
    IF ~req.ok THEN [outcome |-> "closed", written |-> <<>>]
    ELSE IF ~ServerValidates(req) THEN [outcome |-> "closed", written |-> <<>>]
    ELSE [outcome |-> "established",
          written |-> SwitchingProtocols(
                          generateWebSocketAcceptKey(HeaderGet(req.header, HdrKey)))]

ServerHandshake ==
    /\ hs.pc = "start" /\ hs.side = "server"
    /\ LET r == ServerHandshakeResult(hs.req)
       IN  hs' = [hs EXCEPT !.pc = "done", !.outcome = r.outcome,
                            !.written = r.written, !.attempts = @ + 1,
                            !.conn = IF r.outcome = "closed" THEN "closed" ELSE "open"]
    /\ UNCHANGED <<tr, wr, iso>>
    /\ UNCHANGED sessionVars
    /\ UNCHANGED codecVars
    /\ UNCHANGED sendVars

(***************************************************************************)
(* func (c *Client) Handshake() error: the request it writes and what it   *)
(* returns for the chunks the reads deliver.  Only the first read is made, *)
(* into 1024 bytes; string(response[:n])[9:32] panics when n < 32.         *)
(***************************************************************************)
HandshakeRequest(key) == RequestHead \o Base64Encode(key) \o RequestTail

\* Handshake without the comparison of the status line
M_ClientHandshakeResult_AnyStatus(reads) ==
    IF Len(reads) = 0
    THEN [outcome |-> "error", err |-> "error reading handshake response"]
    ELSE LET response == IF Len(reads[1]) > 1024 THEN Take(reads[1], 1024) ELSE reads[1]
         IN  IF Len(response) < 32
             THEN [outcome |-> "panic", err |-> "slice bounds out of range"]
             ELSE [outcome |-> "nil", err |-> ""]

ClientHandshakeResult(reads) ==
    IF Len(reads) = 0
    THEN [outcome |-> "error", err |-> "error reading handshake response"]
    ELSE LET response == IF Len(reads[1]) > 1024 THEN Take(reads[1], 1024) ELSE reads[1]
         IN  IF Len(response) < 32
             THEN [outcome |-> "panic", err |-> "slice bounds out of range"]
             ELSE IF SubSeq(response, 10, 32) # Status101
             THEN [outcome |-> "error", err |-> "invalid handshake response"]
             ELSE [outcome |-> "nil", err |-> ""]

ClientHandshake ==
    /\ hs.pc = "start" /\ hs.side = "client"
    /\ LET r == ClientHandshakeResult(hs.reads)
       IN  hs' = [hs EXCEPT !.pc = "done", !.outcome = r.outcome, !.err = r.err,
                            !.written = HandshakeRequest(hs.key), !.attempts = @ + 1]
    /\ UNCHANGED <<tr, wr, iso>>
    /\ UNCHANGED sessionVars
    /\ UNCHANGED codecVars
    /\ UNCHANGED sendVars

(***************************************************************************)
(* NewClient after Handshake: log.Fatal(err) ends the process on an error, *)
(* a panic ends it too, and after nil it sends the message.                *)
(***************************************************************************)
NewClientProceed ==
    /\ hs.pc = "done" /\ hs.side = "client"
    /\ hs' = [hs EXCEPT
                !.pc = CASE hs.outcome = "nil" -> "running"
                         [] hs.outcome = "error" -> "exited"
                         [] OTHER -> "crashed",
                !.conn = IF hs.outcome = "nil" THEN "open" ELSE "closed",
                !.sentFrames = IF hs.outcome = "nil" THEN 1 ELSE 0]
    /\ UNCHANGED <<tr, wr, iso>>
    /\ UNCHANGED sessionVars
    /\ UNCHANGED codecVars
    /\ UNCHANGED sendVars

(***************************************************************************)
(* The first pass of the frame loop that follows the handshake.  Both      *)
(* loops call ReadFrame on the connection itself.  The server parsed the   *)
(* request through bufio.NewReader(conn): the read that brought the end of *)
(* the request filled the room left in the reader's buffer, which is not   *)
(* read again, so the loop sees what did not fit and the later reads.  The *)
(* client's Handshake made one conn.Read into 1024 bytes and dropped them, *)
(* so the loop sees what the first read left and the reads after it.       *)
(***************************************************************************)
FrameLoopStream(side, buffered, tail, reads) ==
    IF side = "server" THEN Drop(tail, DefaultBufSize - buffered) \o Concat(reads)
    ELSE IF Len(reads) = 0 THEN <<>>
    ELSE Drop(reads[1], 1024) \o Concat(Tail(reads))

\* The record of the first ReadFrame of a loop and of what the loop's body
\* made of the frame: the server's answer to a text it decoded and the
\* client's pong to a ping are frames sent.  crash: make ends the process
FirstFrame(h, stream, crash) ==
    IF crash
    THEN [h EXCEPT !.pc = "crashed", !.conn = "closed",
                   !.first = [err |-> "panic", frame |-> NoFrame]]
    ELSE LET r == ReadFrame(stream)
         IN  IF r.err # ""
             THEN [h EXCEPT !.pc = "returned", !.conn = "closed",
                            !.first = [err |-> r.err, frame |-> NoFrame]]
             ELSE LET ends == IF h.side = "server" THEN HandleFrame(r.frame).return
                              ELSE ReadFullMessageStep(r.frame, <<>>, 0).ret.kind = "error"
                      gets == IF h.side = "server" THEN HandleFrame(r.frame).handled
                              ELSE ReadFullMessageStep(r.frame, <<>>, 0).ret.kind = "message"
                      sends == IF h.side = "server" THEN HandleFrame(r.frame).respond
                               ELSE ReadFullMessageStep(r.frame, <<>>, 0).pong
                 IN  [h EXCEPT !.pc = IF ends THEN "returned" ELSE "looping",
                               !.conn = IF ends THEN "closed" ELSE "open",
                               !.decoded = 1,
                               !.messages = IF gets THEN 1 ELSE 0,
                               !.sentFrames = IF sends THEN h.sentFrames + 1
                                              ELSE h.sentFrames,
                               !.first = [err |-> "", frame |-> r.frame]]

\* handleWebSocket, step 2, first pass
ServerFirstFrame ==
    /\ hs.pc = "done" /\ hs.side = "server" /\ hs.outcome = "established"
    /\ \E crash \in ReadFrameCrashes(FrameLoopStream("server", hs.buffered,
                                                      hs.tail, hs.reads)) :
          hs' = FirstFrame(hs, FrameLoopStream("server", hs.buffered, hs.tail, hs.reads),
                           crash)
    /\ UNCHANGED <<tr, wr, iso>>
    /\ UNCHANGED sessionVars
    /\ UNCHANGED codecVars
    /\ UNCHANGED sendVars

\* NewClient's read loop, first pass
ClientFirstFrame ==
    /\ hs.pc = "running" /\ hs.side = "client"
    /\ \E crash \in ReadFrameCrashes(FrameLoopStream("client", hs.buffered,
                                                      hs.tail, hs.reads)) :
          hs' = FirstFrame(hs, FrameLoopStream("client", hs.buffered, hs.tail, hs.reads),
                           crash)
    /\ UNCHANGED <<tr, wr, iso>>
    /\ UNCHANGED sessionVars
    /\ UNCHANGED codecVars
    /\ UNCHANGED sendVars

NextHandshake ==
    \/ ServerHandshake \/ ServerFirstFrame
    \/ ClientHandshake \/ NewClientProceed \/ ClientFirstFrame

SpecHandshake == InitHandshake /\ [][NextHandshake]_vars

(***************************************************************************)
(* SpecIsolation: one process and its connections.  The server process     *)
(* runs NewServer, whose loop accepts connections and starts one           *)
(* handleWebSocket goroutine for each; the client process runs NewClient   *)
(* with its one connection.  A panic in any goroutine, and log.Fatal, end  *)
(* the whole process: the listener and every connection with it.           *)
(***************************************************************************)
MaxConns == 2      \* connections one server process accepts

NoSession == [state |-> "none", cause |-> "", handled |-> 0]

InitIsolation ==
    /\ SessionIdle /\ CodecIdle /\ SendIdle
    /\ HandshakeIdle /\ TruncatedIdle /\ WriteIdle
    /\ \E side \in {"server", "client"} :
          iso = [pc |-> "run", side |-> side, proc |-> "running",
                 listener |-> IF side = "server" THEN "accepting" ELSE "none",
                 sess |-> [c \in 1..(IF side = "server" THEN MaxConns ELSE 1)
                              |-> NoSession]]

\* What arrives next on a connection, the stream ending after it: whole
\* frames, frames cut short, nothing, a header that declares 2^64-1
\* payload bytes and one that declares 2^32
IsoStreams(side) ==
    LET text == PeerEncode(side, Frame(TRUE, OpText, FALSE, <<>>,
                               IF side = "server" THEN JSONText ELSE <<65>>))
        close == PeerEncode(side, Frame(TRUE, OpClose, FALSE, <<>>, <<>>))
        huge == <<130, (IF side = "server" THEN 128 ELSE 0) + 127,
                  255, 255, 255, 255, 255, 255, 255, 255>>
                \o (IF side = "server" THEN PeerKey ELSE <<>>)
        large == <<130, (IF side = "server" THEN 128 ELSE 0) + 127,
                   0, 0, 0, 1, 0, 0, 0, 0>>
                 \o (IF side = "server" THEN PeerKey ELSE <<>>)
    IN  {text, close, huge, large, <<>>, Take(text, 1), Take(text, Len(text) - 1)}

IsoRequests ==
    { [ok |-> TRUE, header |-> <<Field(HdrConnection, StrUpgrade),
                                 Field(HdrUpgrade, StrWebsocket),
                                 Field(HdrKey, SampleKey)>>],
      [ok |-> TRUE, header |-> <<Field(HdrConnection, StrKeepAlive)>>],
      [ok |-> FALSE, header |-> <<>>] }

IsoResponses == { <<SwitchingProtocols(SampleAccept)>>, <<Resp404>>, <<Resp400>>, <<>> }

\* The session of connection c ends for a cause of its own
Ended(c, cause) == [iso EXCEPT !.sess[c].state = "closed", !.sess[c].cause = cause]

\* The process ends while connection c is being served
ProcessEnds(c, how, cause) ==
    [iso EXCEPT !.proc = how,
                !.listener = IF iso.side = "server" THEN "closed" ELSE "none",
                !.sess = [d \in DOMAIN iso.sess |->
                            IF d = c
                            THEN [iso.sess[d] EXCEPT !.state = "closed", !.cause = cause]
                            ELSE IF iso.sess[d].state \in {"pending", "established"}
                            THEN [iso.sess[d] EXCEPT !.state = "closed",
                                                     !.cause = "process ended"]
                            ELSE iso.sess[d]]]

Handled(c) ==
    [iso EXCEPT !.sess[c].handled =
                    IF iso.sess[c].handled < MaxFrames THEN iso.sess[c].handled + 1
                    ELSE iso.sess[c].handled]

IsoUnchanged ==
    /\ UNCHANGED <<hs, tr, wr>>
    /\ UNCHANGED sessionVars
    /\ UNCHANGED codecVars
    /\ UNCHANGED sendVars

\* NewServer: conn, err := listener.Accept(); go handleWebSocket(conn)
Accept ==
    /\ iso.pc = "run" /\ iso.side = "server"
    /\ iso.proc = "running" /\ iso.listener = "accepting"
    /\ \E c \in DOMAIN iso.sess :
          /\ iso.sess[c].state = "none"
          /\ \A d \in DOMAIN iso.sess : d < c => iso.sess[d].state # "none"
          /\ iso' = [iso EXCEPT !.sess[c].state = "pending"]
    /\ IsoUnchanged

\* handleWebSocket, step 1, on connection c
IsoServerHandshake ==
    /\ iso.pc = "run" /\ iso.side = "server" /\ iso.proc = "running"
    /\ \E c \in DOMAIN iso.sess, req \in IsoRequests :
          /\ iso.sess[c].state = "pending"
          /\ iso' = IF ServerHandshakeResult(req).outcome = "established"
                    THEN [iso EXCEPT !.sess[c].state = "established"]
                    ELSE Ended(c, "invalid handshake")
    /\ IsoUnchanged

\* handleWebSocket, step 2, on connection c: one turn of the frame loop
IsoServerFrame ==
    /\ iso.pc = "run" /\ iso.side = "server" /\ iso.proc = "running"
    /\ \E c \in DOMAIN iso.sess, stream \in IsoStreams("server") :
          /\ iso.sess[c].state = "established"
          /\ \E crash \in ReadFrameCrashes(stream) :
             iso' = IF crash
                    THEN ProcessEnds(c, "crashed", "panic")
                    ELSE LET r == ReadFrame(stream)
                         IN  IF r.err # "" THEN Ended(c, r.err)
                             ELSE IF HandleFrame(r.frame).return
                             THEN Ended(c, "close frame")
                             ELSE Handled(c)
    /\ IsoUnchanged

\* NewClient: conn, err := net.Dial(...)
Dial ==
    /\ iso.pc = "run" /\ iso.side = "client" /\ iso.proc = "running"
    /\ iso.sess[1].state = "none"
    /\ iso' = [iso EXCEPT !.sess[1].state = "pending"]
    /\ IsoUnchanged

\* NewClient: err = client.Handshake(); if err != nil { log.Fatal(err) }
IsoClientHandshake ==
    /\ iso.pc = "run" /\ iso.side = "client" /\ iso.proc = "running"
    /\ iso.sess[1].state = "pending"
    /\ \E reads \in IsoResponses :
          LET r == ClientHandshakeResult(reads)
          IN  iso' = CASE r.outcome = "nil" -> [iso EXCEPT !.sess[1].state = "established"]
                       [] r.outcome = "error" -> ProcessEnds(1, "exited", r.err)
                       [] OTHER -> ProcessEnds(1, "crashed", "panic")
    /\ IsoUnchanged

\* NewClient: one frame of the loop over client.ReadMessage()
IsoClientFrame ==
    /\ iso.pc = "run" /\ iso.side = "client" /\ iso.proc = "running"
    /\ iso.sess[1].state = "established"
    /\ \E stream \in IsoStreams("client") : \E crash \in ReadFrameCrashes(stream) :
          iso' = IF crash
                 THEN ProcessEnds(1, "crashed", "panic")
                 ELSE LET r == ReadFrame(stream)
                      IN  IF r.err # "" THEN Ended(1, ReadError(r.err).err)
                          ELSE LET o == ReadFullMessageStep(r.frame, <<>>, 0)
                               IN  IF o.ret.kind = "error" THEN Ended(1, o.ret.err)
                                   ELSE Handled(1)
    /\ IsoUnchanged

NextIsolation ==
    \/ Accept \/ IsoServerHandshake \/ IsoServerFrame
    \/ Dial \/ IsoClientHandshake \/ IsoClientFrame

SpecIsolation == InitIsolation /\ [][NextIsolation]_vars

(***************************************************************************)
(* SpecTruncated: the peer writes one frame and the stream ends after the  *)
(* first cut bytes of it (all of them: the frame is whole; none: the peer  *)
(* closed at a frame boundary).  The session's loop calls ReadFrame once.  *)
(***************************************************************************)
\* Frames with the 7-bit and with the 2-byte length form
TruncFrames ==
    { FrameIn(TRUE, OpText, FALSE, <<>>, Data(<<65>>, 0)),
      FrameIn(TRUE, OpBinary, FALSE, <<>>, Data(<<>>, Len7Max + 1)) }

InitTruncated ==
    /\ SessionIdle /\ CodecIdle /\ SendIdle
    /\ HandshakeIdle /\ WriteIdle /\ IsolationIdle
    /\ \E side \in {"server", "client"}, f \in TruncFrames :
       \E cut \in 0..Len(PeerEncode(side, FrameOf(f))) :
          tr = [pc |-> "sent", side |-> side, frame |-> f, cut |-> cut,
                whole |-> Len(PeerEncode(side, FrameOf(f))),
                err |-> "", decoded |-> FALSE, report |-> "", conn |-> "open"]

\* ReadFrame on the bytes that arrived before the stream ended
TruncRead(t) == ReadFrame(Take(PeerEncode(t.side, FrameOf(t.frame)), t.cut))

TruncUnchanged ==
    /\ UNCHANGED <<hs, wr, iso>>
    /\ UNCHANGED sessionVars
    /\ UNCHANGED codecVars
    /\ UNCHANGED sendVars

\* handleWebSocket: frame, err := ReadFrame(conn); if err != nil { ...; return }
TruncServerRead ==
    /\ tr.pc = "sent" /\ tr.side = "server"
    /\ LET r == TruncRead(tr)
       IN  tr' = [tr EXCEPT !.pc = "read", !.err = r.err,
                            !.decoded = (r.err = ""),
                            !.report = IF r.err = "" THEN ""
                                       ELSE IF r.err = "EOF" THEN "Client disconnected"
                                       ELSE "Error reading WebSocket frame",
                            !.conn = IF r.err = "" THEN "open" ELSE "closed"]
    /\ TruncUnchanged

\* ReadFullMessage: frame, err := ReadFrame(c.conn); if err != nil { return ... }
TruncClientRead ==
    /\ tr.pc = "sent" /\ tr.side = "client"
    /\ LET r == TruncRead(tr)
       IN  tr' = [tr EXCEPT !.pc = "read", !.err = r.err,
                            !.decoded = (r.err = ""),
                            !.report = IF r.err = "" THEN "" ELSE ReadError(r.err).err,
                            !.conn = IF r.err = "" THEN "open" ELSE "closed"]
    /\ TruncUnchanged

NextTruncated == TruncServerRead \/ TruncClientRead

SpecTruncated == InitTruncated /\ [][NextTruncated]_vars

(***************************************************************************)
(* SpecWrite: two goroutines write on one Client's conn.  A caller is in   *)
(* SendTextMessage (sendFragmentedMessage, one frame for a small message)  *)
(* while the read loop, in ReadFullMessage, decodes a ping and calls       *)
(* sendPong.  Both end in Client.sendFrame, which makes two conn.Write     *)
(* calls, the header and then the masked payload, and holds no lock; one   *)
(* conn.Write is atomic with respect to another.  wire lists the writes in *)
(* the order the connection took them.                                     *)
(***************************************************************************)
WriteKeys == [send |-> <<18, 52, 86, 120>>, pong |-> <<255, 0, 170, 85>>]

InitWrite ==
    /\ SessionIdle /\ CodecIdle /\ SendIdle
    /\ HandshakeIdle /\ TruncatedIdle /\ IsolationIdle
    /\ \E data \in SmallPayloads, ping \in {<<>>, <<65>>, <<66, 66>>} :
          wr = [pc |-> "run", data |-> data, ping |-> ping,
                sendPc |-> IF Len(data) > 0 THEN "header" ELSE "returned",
                pongPc |-> "reading",
                wire |-> <<>>]

WriteUnchanged ==
    /\ UNCHANGED <<hs, tr, iso>>
    /\ UNCHANGED sessionVars
    /\ UNCHANGED codecVars
    /\ UNCHANGED sendVars

\* One conn.Write call: who made it, which of sendFrame's two it is, the bytes
WriteCall(who, part, bytes) == [who |-> who, part |-> part, bytes |-> bytes]

\* The frame the caller's sendFragmentedMessage builds for wr.data
SendFrameOf(data) == FragmentFrame(data, TRUE, OpText, TRUE, WriteKeys.send)

\* Client.sendFrame in the caller's goroutine: c.conn.Write(header)
SendWriteHeader ==
    /\ wr.pc = "run" /\ wr.sendPc = "header"
    /\ wr' = [wr EXCEPT !.sendPc = "payload",
                        !.wire = Append(wr.wire, WriteCall("send", "header",
                                     ClientSendFrame(SendFrameOf(wr.data)).header))]
    /\ WriteUnchanged

\* Client.sendFrame in the caller's goroutine: c.conn.Write(maskedPayload)
SendWritePayload ==
    /\ wr.pc = "run" /\ wr.sendPc = "payload"
    /\ wr' = [wr EXCEPT !.sendPc = "returned",
                        !.wire = Append(wr.wire, WriteCall("send", "payload",
                                     ClientSendFrame(SendFrameOf(wr.data)).body))]
    /\ WriteUnchanged

\* The read loop decodes the ping: case "ping": c.sendPong(frame.Payload)
ReadPing ==
    /\ wr.pc = "run" /\ wr.pongPc = "reading"
    /\ ReadFullMessageStep(Frame(TRUE, OpPing, FALSE, <<>>, wr.ping), <<>>, 0).pong
    /\ wr' = [wr EXCEPT !.pongPc = "header"]
    /\ WriteUnchanged

\* Client.sendFrame in the read loop's goroutine: c.conn.Write(header)
PongWriteHeader ==
    /\ wr.pc = "run" /\ wr.pongPc = "header"
    /\ wr' = [wr EXCEPT !.pongPc = "payload",
                        !.wire = Append(wr.wire, WriteCall("pong", "header",
                                     ClientSendFrame(PongFrame(wr.ping, WriteKeys.pong)).header))]
    /\ WriteUnchanged

\* Client.sendFrame in the read loop's goroutine: c.conn.Write(maskedPayload)
PongWritePayload ==
    /\ wr.pc = "run" /\ wr.pongPc = "payload"
    /\ wr' = [wr EXCEPT !.pongPc = "returned",
                        !.wire = Append(wr.wire, WriteCall("pong", "payload",
                                     ClientSendFrame(PongFrame(wr.ping, WriteKeys.pong)).body))]
    /\ WriteUnchanged

NextWrite ==
    \/ SendWriteHeader \/ SendWritePayload
    \/ ReadPing \/ PongWriteHeader \/ PongWritePayload

SpecWrite == InitWrite /\ [][NextWrite]_vars
(***************************************************************************)
(* C1: when the client has read a text or binary frame without fin,        *)
(* continuation frames without fin and a continuation frame with fin       *)
(* (pings and pongs anywhere between), ReadFullMessage returns exactly one *)
(* Message, whose payload is the fragments' payloads in arrival order.     *)
(***************************************************************************)
C1_Reassembly ==
    (role = "client" /\ ref.emitted /\ ref.nfrag >= 2) =>
        /\ lastReturn.kind = "message"
        /\ lastReturn.Payload = ref.payload
        /\ Len(delivered) = ref.start + 1
        /\ delivered[Len(delivered)].Payload = ref.payload

C1_Witness ==
    /\ role = "client"
    /\ ref.emitted /\ ref.nfrag = 3
    /\ ref.payload = <<65, 66, 66>>
    /\ lastReturn.kind = "message"
    /\ Len(delivered) = 1

(***************************************************************************)
(* C2: the kind of every Message the client returns is the opcode of the   *)
(* first frame of its fragment sequence, also when leading fragments have  *)
(* empty payloads.                                                         *)
(***************************************************************************)
C2_KindIsFirstOpcode ==
    (role = "client" /\ ref.emitted) =>
        /\ lastReturn.kind = "message"
        /\ lastReturn.Type = ref.first

(***************************************************************************)
(* C3: a continuation frame read while no fragment sequence is open ends   *)
(* the session with a protocol error, and no Message is delivered for it.  *)
(***************************************************************************)
C3_ContinuationWhileIdle ==
    ref.violation = "contIdle" =>
        /\ conn = "closed"
        /\ lastReturn.kind = "error"
        /\ Len(delivered) = prevDelivered

(***************************************************************************)
(* C4: a text or binary frame read by the client while a fragment sequence *)
(* is open returns the error "protocol error: expected continuation        *)
(* frame" and delivers no Message, however many bytes are buffered.        *)
(***************************************************************************)
C4_DataWhileOpen ==
    (role = "client" /\ ref.violation = "dataOpen") =>
        /\ lastReturn.kind = "error"
        /\ lastReturn.err = "protocol error: expected continuation frame"
        /\ Len(delivered) = prevDelivered

(***************************************************************************)
(* C5: in either role, each ping frame read has been answered, before the  *)
(* next frame is read, by exactly one pong frame with the ping's payload:  *)
(* the pongs written are the pings read, in order.                         *)
(***************************************************************************)
C5_PingAnsweredByPong ==
    PongPayloads(DecodeAll(outbound).frames) = pings

(***************************************************************************)
(* C6: a close frame, read at any point, ends the session and delivers no  *)
(* Message, also when fragments are buffered; and a closed session reads   *)
(* no further frame, delivers nothing and writes nothing.                  *)
(***************************************************************************)
C6_CloseTerminates ==
    /\ [](lastOp = OpClose => (conn = "closed" /\ Len(delivered) = prevDelivered))
    /\ [][conn = "closed" =>
            /\ conn' = "closed"
            /\ delivered' = delivered
            /\ outbound' = outbound
            /\ lastOp' = lastOp
            /\ Len(inbound') >= Len(inbound)]_vars

C6_Witness ==
    /\ role = "client"
    /\ conn = "closed" /\ lastOp = OpClose
    /\ ref.phase = "open" /\ fullMessage # <<>>
    /\ delivered = <<>>
    /\ inbound # <<>>

(***************************************************************************)
(* C7: a payload longer than MaxFrameSize leaves sendFragmentedMessage as  *)
(* frames of at most MaxFrameSize payload bytes each, whose payloads       *)
(* concatenated in send order are the payload; the first frame carries the *)
(* requested opcode, every later one opcode continuation, and the last     *)
(* frame and only the last has fin set.                                    *)
(***************************************************************************)
C7_Fragmentation ==
    (spc = "returned" /\ DataLen(sdata) > MaxFrameSize) =>
        LET n == Len(sent)
        IN  /\ n >= 2
            /\ \A i \in 1..n :
                  /\ sent[i].err = "" /\ sent[i].rest = 0
                  /\ sent[i].PayloadLen <= MaxFrameSize
                  /\ sent[i].PayloadBytes = sent[i].PayloadLen
                  /\ sent[i].Opcode = (IF i = 1 THEN sopcode ELSE OpContinuation)
                  /\ sent[i].Fin <=> (i = n)
                  /\ sent[i].Same
            /\ SumBytes(sent) = DataLen(sdata)

C7_Witness ==
    /\ spc = "returned"
    /\ DataLen(sdata) = 2 * MaxFrameSize + 1
    /\ sopcode = OpBinary
    /\ Len(sent) = 3
    /\ sent[3].Fin /\ sent[3].PayloadBytes = 1

(***************************************************************************)
(* C8: sending a zero-length payload writes exactly one frame, with fin    *)
(* set, the requested opcode and an empty payload.                         *)
(***************************************************************************)
C8_EmptyPayloadOneFrame ==
    (spc = "returned" /\ DataLen(sdata) = 0) =>
        /\ Len(sent) = 1
        /\ sent[1].err = ""
        /\ sent[1].Fin
        /\ sent[1].Opcode = sopcode
        /\ sent[1].PayloadBytes = 0

(***************************************************************************)
(* C9: for every valid Frame f, masked with a 4-byte key or unmasked with  *)
(* no key, the encoder writes bytes that ReadFrame decodes to a frame      *)
(* equal to f in fin, opcode, masked, payload length, mask key and         *)
(* payload.                                                                *)
(***************************************************************************)
C9_RoundTrip ==
    /\ txPhase \in {"encoded", "decoded"} => ~txPanic
    /\ txPhase = "decoded" =>
          /\ rx.err = ""
          /\ rx.rest = 0
          /\ rx.Fin = txFrame.Fin
          /\ rx.Opcode = txFrame.Opcode
          /\ rx.Masked = txFrame.Masked
          /\ rx.PayloadLen = DataLen(txFrame.Data)
          /\ rx.MaskKey = txFrame.MaskKey
          /\ rx.Same

(***************************************************************************)
(* C10: both encoders write a payload length L in the 7-bit field when     *)
(* L <= 125, as 126 and two big-endian bytes when 126 <= L <= 65535, as    *)
(* 127 and eight big-endian bytes when L >= 65536, and ReadFrame decodes   *)
(* each form back to L.  The server's encoder takes any payload; the       *)
(* client's takes the frames its callers build, which carry a mask key.    *)
(***************************************************************************)
C10_LengthTiers ==
    (txPhase = "decoded" /\ (txEnc = "server" \/ txFrame.Masked)) =>
        LET L == DataLen(txFrame.Data)
            ind == wireHead[2] % 128
            keyLen == IF txEnc = "client" THEN 4 ELSE 0
        IN  /\ L <= 125 =>
                  /\ ind = L
                  /\ Len(wireHead) = 2 + keyLen
            /\ (126 <= L /\ L <= 65535) =>
                  /\ ind = 126
                  /\ Len(wireHead) = 4 + keyLen
                  /\ wireHead[3] * 256 + wireHead[4] = L
            /\ L >= 65536 =>
                  /\ ind = 127
                  /\ Len(wireHead) = 10 + keyLen
                  /\ \A i \in 3..6 : wireHead[i] = 0
                  /\ wireHead[7] * 16777216 + wireHead[8] * 65536
                       + wireHead[9] * 256 + wireHead[10] = L
            /\ wireLen = Len(wireHead) + L
            /\ rx.err = ""
            /\ rx.PayloadLen = L
            /\ rx.PayloadBytes = L

C10_Witness ==
    /\ txPhase = "decoded"
    /\ txEnc = "client"
    /\ DataLen(txFrame.Data) = 65536
    /\ wireHead[2] = 255
    /\ rx.PayloadLen = 65536


(***************************************************************************)
(* The tokens of a comma-separated header value, in lower case and without *)
(* the blanks around them.                                                 *)
(***************************************************************************)
RECURSIVE TrimBlanks(_)
TrimBlanks(s) ==
    IF Len(s) > 0 /\ s[1] \in {32, 9} THEN TrimBlanks(Tail(s))
    ELSE IF Len(s) > 0 /\ s[Len(s)] \in {32, 9} THEN TrimBlanks(SubSeq(s, 1, Len(s) - 1))
    ELSE s

RECURSIVE Tokens(_, _)
Tokens(s, cur) ==
    IF Len(s) = 0 THEN {ToLower(TrimBlanks(cur))}
    ELSE IF s[1] = 44 THEN {ToLower(TrimBlanks(cur))} \cup Tokens(Tail(s), <<>>)
    ELSE Tokens(Tail(s), Append(cur, s[1]))

\* A request that asks for the upgrade: it parsed, Connection has the token
\* Upgrade in any case, and Upgrade is websocket
AsksUpgrade(req) ==
    /\ req.ok
    /\ ToLower(StrUpgrade) \in Tokens(HeaderGet(req.header, HdrConnection), <<>>)
    /\ HeaderGet(req.header, HdrUpgrade) = StrWebsocket

(***************************************************************************)
(* C11: the server writes the 101 Switching Protocols response and enters  *)
(* the frame loop if and only if the request's Connection header contains  *)
(* the token Upgrade, compared case-insensitively, and its Upgrade header  *)
(* equals websocket; in every other case it writes no byte and closes the  *)
(* connection.                                                             *)
(***************************************************************************)
C11_ServerHandshake ==
    (hs.pc = "done" /\ hs.side = "server") =>
        IF AsksUpgrade(hs.req)
        THEN /\ hs.outcome = "established"
             /\ hs.conn = "open"
             /\ Len(hs.written) >= 32
             /\ SubSeq(hs.written, 10, 32) = Status101
        ELSE /\ hs.outcome = "closed"
             /\ hs.conn = "closed"
             /\ hs.written = <<>>

\* The response has the status line HTTP/1.x 101 Switching Protocols
Carries101(reads) ==
    LET all == Concat(reads)
    IN  Len(all) >= 32 /\ SubSeq(all, 10, 32) = Status101

(***************************************************************************)
(* C12: for every server response that does not carry the status line      *)
(* 101 Switching Protocols (shorter than a status line, delivered in       *)
(* several reads, or with another status), Client.Handshake returns an     *)
(* error value, the session is never established and no frame is sent.     *)
(***************************************************************************)
C12_ClientHandshake ==
    (hs.side = "client" /\ hs.pc # "start" /\ ~Carries101(hs.reads)) =>
        /\ hs.outcome = "error"
        /\ hs.pc # "running"
        /\ hs.sentFrames = 0

(***************************************************************************)
(* C13: an error on one connection (truncated or oversized frame, invalid  *)
(* handshake, protocol error, I/O error) ends only that connection's       *)
(* session: the process does not crash, the listener keeps accepting, and  *)
(* no other session is ended by it.                                        *)
(***************************************************************************)
C13_ErrorIsolation ==
    iso.pc = "run" =>
        /\ iso.proc # "crashed"
        /\ iso.side = "server" => iso.listener = "accepting"
        /\ \A c \in DOMAIN iso.sess : iso.sess[c].cause # "process ended"

(***************************************************************************)
(* C14: a data frame without fin, or a continuation frame that does not    *)
(* close its sequence, never by itself delivers anything to the            *)
(* application, on the server as on the client: when the frame just        *)
(* handled leaves a fragment sequence open, no message was delivered and   *)
(* no response was written for it.                                         *)
(***************************************************************************)
C14_OnlyCompleteMessages ==
    [][ (ref'.phase = "open" /\ lastOp' \in {OpText, OpBinary, OpContinuation})
            => (delivered' = delivered /\ outbound' = outbound) ]_vars

\* The bytes on the wire, in the order the writes were made
RECURSIVE WireBytes(_)
WireBytes(wire) ==
    IF Len(wire) = 0 THEN <<>> ELSE wire[1].bytes \o WireBytes(Tail(wire))

\* The writes that put at least one byte on the wire
RECURSIVE ByteWrites(_)
ByteWrites(wire) ==
    IF Len(wire) = 0 THEN <<>>
    ELSE (IF Len(wire[1].bytes) > 0 THEN <<wire[1]>> ELSE <<>>) \o ByteWrites(Tail(wire))

\* The payload of the frame a goroutine writes
PayloadOf(who) == IF who = "send" THEN wr.data ELSE wr.ping

(***************************************************************************)
(* C15: when a send runs concurrently with the read loop answering a ping, *)
(* the header and the payload of each frame are contiguous on the wire:    *)
(* the header bytes of a frame with a payload are followed at once by the  *)
(* payload bytes of the same frame, and once both goroutines have returned *)
(* the wire reads back as the whole frames that were sent.                 *)
(***************************************************************************)
C15_WritesSequenced ==
    wr.pc = "run" =>
        LET w == ByteWrites(wr.wire)
        IN  /\ \A i \in 1..(Len(w) - 1) :
                  (w[i].part = "header" /\ Len(PayloadOf(w[i].who)) > 0) =>
                      /\ w[i + 1].part = "payload"
                      /\ w[i + 1].who = w[i].who
            /\ (wr.sendPc = "returned" /\ wr.pongPc = "returned") =>
                  LET d == DecodeAll(WireBytes(wr.wire))
                  IN  /\ d.err = ""
                      /\ \A i \in 1..Len(d.frames) :
                            d.frames[i].Payload \in {wr.data, wr.ping}

\* The number of close frames among frames
RECURSIVE CloseFrames(_)
CloseFrames(frames) ==
    IF Len(frames) = 0 THEN 0
    ELSE (IF frames[1].Opcode = OpClose THEN 1 ELSE 0) + CloseFrames(Tail(frames))

(***************************************************************************)
(* C16: whenever a session closes (a close frame was received, a codec or  *)
(* protocol error, an I/O error), it has attempted to write one close      *)
(* frame before it released the connection: on a closed connection the     *)
(* last frame written is a close frame, and it is the only one.            *)
(***************************************************************************)
C16_CloseFrameWritten ==
    conn = "closed" =>
        LET written == DecodeAll(outbound).frames
        IN  /\ Len(written) > 0
            /\ written[Len(written)].Opcode = OpClose
            /\ CloseFrames(written) = 1

\* "Kfh9QIsMVZcl6xEPYxPHzW8SZ8w=": the accept value of the empty key
EmptyAccept ==
    <<75, 102, 104, 57, 81, 73, 115, 77, 86, 90, 99, 108, 54, 120, 69, 80, 89,
      120, 80, 72, 122, 87, 56, 83, 90, 56, 119, 61>>

\* base64(SHA-1(key ++ GUID)) for the keys of the requests, as RFC 6455 and
\* an independent SHA-1 give them
KnownAccept(key) ==
    CASE key = SampleKey -> SampleAccept
      [] key = OtherKey -> OtherAccept
      [] key = <<>> -> EmptyAccept

(***************************************************************************)
(* C17: the accept value is base64(SHA-1(key ++ GUID)) of the request's    *)
(* Sec-WebSocket-Key: for "dGhlIHNhbXBsZSBub25jZQ==" it is                 *)
(* "s3pPLMBiTxaQ9kYGzzhZRbK+xOo=", and the 101 response carries that value *)
(* in Sec-WebSocket-Accept.                                                *)
(***************************************************************************)
C17_AcceptKey ==
    (hs.side = "server" /\ hs.outcome = "established") =>
        LET key == HeaderGet(hs.req.header, HdrKey)
            n == Len(ResponseHead)
        IN  /\ Len(hs.written) = n + 28 + 4
            /\ SubSeq(hs.written, 1, n) = ResponseHead
            /\ SubSeq(hs.written, n + 1, n + 28) = KnownAccept(key)
            /\ SubSeq(hs.written, n + 29, n + 32) = CRLFCRLF

C17_Witness ==
    /\ hs.side = "server" /\ hs.outcome = "established"
    /\ HeaderGet(hs.req.header, HdrKey) = SampleKey
    /\ SubSeq(hs.written, Len(ResponseHead) + 1, Len(ResponseHead) + 28) = SampleAccept

(***************************************************************************)
(* C18: a ping or pong frame the client reads leaves the reassembly buffer *)
(* and the pending opcode as they were, returns nothing and keeps the      *)
(* session open; so the Message emitted when the sequence closes is the    *)
(* one its data frames alone call for, the control frames between them     *)
(* left out.                                                               *)
(***************************************************************************)
C18_ControlFramesKeepState ==
    /\ [][ (role = "client" /\ inbound' # inbound /\ nframes' = nframes
            /\ lastOp' \in {OpPing, OpPong})
              => /\ fullMessage' = fullMessage
                 /\ messageOpcode' = messageOpcode
                 /\ delivered' = delivered
                 /\ lastReturn'.kind = "continue"
                 /\ conn' = conn ]_vars
    /\ []((role = "client" /\ ref.emitted) =>
              /\ lastReturn.kind = "message"
              /\ lastReturn.Payload = ref.payload)

C18_Witness ==
    /\ role = "client" /\ conn = "open"
    /\ lastOp = OpPing
    /\ ref.phase = "open"
    /\ fullMessage = <<65>> /\ messageOpcode = OpText
    /\ outbound # <<>>

(***************************************************************************)
(* C19: every Message delivered to the application has kind text or        *)
(* binary: an unknown opcode or the continuation opcode never becomes the  *)
(* kind of an emitted Message, whatever frames the peer sends.             *)
(***************************************************************************)
C19_KindTextOrBinary ==
    \A i \in 1..Len(delivered) : delivered[i].Type \in {OpText, OpBinary}

\* What ReadFrame returns when the peer closed at a frame boundary
CleanEnd == ReadFrame(<<>>).err

(***************************************************************************)
(* C20: when the stream ends before all the bytes a frame declares have    *)
(* been read (after the first header byte, inside the extended length,     *)
(* inside the mask key or inside the payload), ReadFrame returns an error  *)
(* and no Frame, the session ends, and the error differs from the one      *)
(* returned for a clean end of stream at a frame boundary.                 *)
(***************************************************************************)
C20_TruncatedStream ==
    (tr.pc = "read" /\ tr.cut > 0 /\ tr.cut < tr.whole) =>
        /\ tr.err # ""
        /\ ~tr.decoded
        /\ tr.conn = "closed"
        /\ tr.err # CleanEnd

\* A request that parsed and has no Sec-WebSocket-Key field
LacksKey(req) ==
    /\ req.ok
    /\ \A i \in 1..Len(req.header) : ToLower(req.header[i].name) # ToLower(HdrKey)

(***************************************************************************)
(* C21: a handshake request without the Sec-WebSocket-Key header is        *)
(* rejected: the server writes no 101 Switching Protocols response for it, *)
(* closes the connection and does not enter the frame loop.                *)
(***************************************************************************)
C21_MissingKeyRejected ==
    (hs.side = "server" /\ hs.pc # "start" /\ LacksKey(hs.req)) =>
        /\ hs.outcome = "closed"
        /\ hs.conn = "closed"
        /\ ~Carries101(<<hs.written>>)

\* The handshake of the connection has succeeded: the server wrote the 101
\* response for a request it parsed; the client's Handshake saw the 101
\* status in the response it read
HandshakeSucceeded ==
    /\ hs.pc # "start"
    /\ IF hs.side = "server"
       THEN hs.req.ok /\ Carries101(<<hs.written>>)
       ELSE /\ Len(hs.reads) > 0
            /\ Len(hs.reads[1]) >= 32
            /\ SubSeq(hs.reads[1], 10, 32) = Status101

HandshakeFailed == hs.pc # "start" /\ ~HandshakeSucceeded

(***************************************************************************)
(* C22: on a connection no frame is read or decoded, no message is handed  *)
(* to the application and no frame is sent before the handshake has        *)
(* succeeded; a failed handshake ends the session (the server has closed   *)
(* the connection, the client's next step ends the process) and the        *)
(* handshake is attempted once only.                                       *)
(***************************************************************************)
C22_Lifecycle ==
    /\ []((hs.decoded > 0 \/ hs.messages > 0 \/ hs.sentFrames > 0 \/ hs.first # NotRead)
            => HandshakeSucceeded)
    /\ [](hs.attempts <= 1)
    /\ []((HandshakeFailed /\ hs.side = "server") => (hs.pc = "done" /\ hs.conn = "closed"))
    /\ []((HandshakeFailed /\ hs.side = "client") => hs.pc \in {"done", "exited", "crashed"})
    /\ [][HandshakeFailed =>
            /\ hs'.attempts = hs.attempts
            /\ hs'.pc \in {"exited", "crashed"}
            /\ hs'.conn = "closed"]_vars

\* After a handshake that succeeded the client has sent its frame and its
\* loop has decoded a frame and returned a message
C22_Witness ==
    /\ hs.side = "client" /\ hs.pc = "looping" /\ HandshakeSucceeded
    /\ hs.attempts = 1 /\ hs.sentFrames = 1 /\ hs.decoded = 1 /\ hs.messages = 1

\* The frame the server writes for a text frame it could decode
DemoResponse(written) ==
    LET r == ReadFrame(written)
    IN  /\ written # <<>>
        /\ r.err = "" /\ r.rest = <<>>
        /\ r.frame.Fin /\ r.frame.Opcode = OpText /\ ~r.frame.Masked
        /\ r.frame.Payload = ResponseJSON

(***************************************************************************)
(* C23: when the server reads a text frame, the session stays open; if the *)
(* payload is not decodable JSON nothing is written, and if it is, exactly *)
(* one unmasked fin text frame is written in the same step, before the     *)
(* next frame is read.                                                     *)
(***************************************************************************)
C23_DemoHandler ==
    [][ (role = "server" /\ Len(delivered') = Len(delivered) + 1
                         /\ delivered'[Len(delivered')].Type = OpText) =>
          /\ conn' = "open"
          /\ IF delivered'[Len(delivered')].Payload \in {JSONText, JSONNull}
             THEN /\ Len(outbound') > Len(outbound)
                  /\ Take(outbound', Len(outbound)) = outbound
                  /\ DemoResponse(Drop(outbound', Len(outbound)))
             ELSE outbound' = outbound ]_vars

\* An undecodable text frame was skipped and the decodable one after it
\* was answered
C23_Witness ==
    /\ role = "server" /\ conn = "open"
    /\ Len(delivered) = 2
    /\ delivered[1].Type = OpText /\ delivered[1].Payload = JSONArray
    /\ delivered[2].Type = OpText /\ delivered[2].Payload = JSONText
    /\ DemoResponse(outbound)

\* The bytes of s behind its first blank line (CR LF CR LF), where an HTTP
\* message without a body ends
AfterBlankLine(s) ==
    LET ends == {i \in 1..(Len(s) - 3) : SubSeq(s, i, i + 3) = CRLFCRLF}
    IN  IF ends = {} THEN <<>>
        ELSE Drop(s, (CHOOSE i \in ends : \A j \in ends : i <= j) + 3)

\* The bytes the peer sent after its handshake message, in order
SentAfterHandshake ==
    IF hs.side = "server" THEN hs.tail \o Concat(hs.reads)
    ELSE AfterBlankLine(Concat(hs.reads))

\* What the first ReadFrame of the loop may give when it starts at the
\* first byte after the handshake message
FirstFrameSent ==
    { IF crash THEN [err |-> "panic", frame |-> NoFrame]
      ELSE [err |-> ReadFrame(SentAfterHandshake).err,
            frame |-> ReadFrame(SentAfterHandshake).frame] :
      crash \in ReadFrameCrashes(SentAfterHandshake) }

(***************************************************************************)
(* C24: no byte is lost between the handshake and the frame loop: the      *)
(* first ReadFrame of the loop starts at the first byte the peer sent      *)
(* after its handshake message, whatever read delivered that byte, so the  *)
(* first frame decoded is the first frame the peer sent.                   *)
(***************************************************************************)
C24_NoByteLost ==
    hs.first # NotRead => hs.first \in FirstFrameSent
=============================================================================
